---- MODULE Spec2Model ----
(***************************************************************************)
(* Verification model of the workshop repository's retrieval pipeline:     *)
(*   - EmbeddingsPipeline.createSimpleChunks  (sentence chunker)           *)
(*   - RAGChatAgent.cosineSimilarity / semanticLocalSearch  (ranker)       *)
(*   - RAGChatAgent.updateMemory  (conversation memory)                    *)
(*   - RAGChatAgent.processQuery  (query normalizer)                       *)
(*   - RAGChatAgent.ensureLocalVectorIndex  (index loading)                *)
(*   - EmbeddingsPipeline run: loadData .. generateReport  (pipeline)      *)
(*   - server.js: initializeAgent and POST /chat  (HTTP server)            *)
(* Strings are sequences of one-character strings.  Every subsystem has    *)
(* its own specification over the shared variable tuple; the variables of  *)
(* the other subsystems stay at their initial values.                      *)
(***************************************************************************)
EXTENDS Integers, Sequences, FiniteSets, TLC

VARIABLES
    \* --- chunker (embeddings-pipeline.js) ---
    content,              \* argument of createSimpleChunks
    maxWords,             \* argument of createSimpleChunks
    chunks,               \* its return value
    chunkPc,              \* "call" before the call, "done" after it
    \* --- conversation memory (RAGChatAgent) ---
    conversationHistory,  \* Map conversationId -> array of turns
    \* --- local vector search (RAGChatAgent) ---
    vectorFile,           \* Null (no file) or Some(parsed tech-content-vectors.json)
    localVectorIndex,     \* Null or Some([vectors, dim])
    embeddingCache,       \* Map query -> embedding array
    searchQuery,          \* semanticLocalSearch: argument query
    searchK,              \* semanticLocalSearch: argument k
    queryEmbedding,       \* semanticLocalSearch: local queryEmbedding, Null or Some(array)
    ranked,               \* semanticLocalSearch: returned array
    searchPc,             \* "idle", then "done" (returned) or "threw" after a search
    embedCall,            \* embedQuery of the last search: "none", "cached", "failed", "returned"
    \* --- cosineSimilarity as a function ---
    cosA,                 \* argument a, Null or Some(array)
    cosB,                 \* argument b, Null or Some(array)
    cosResult,            \* Null, then Some(returned similarity)
    cosPc,                \* "call" before the call, "done" after it
    \* --- processQuery (RAGChatAgent) ---
    currentQuery,         \* state.currentQuery
    conversationId,       \* state.conversationId
    processedQuery,       \* state.processedQuery
    queryTermCount,       \* state.metadata.queryTerms
    entityCount,          \* state.metadata.entities
    normPc,               \* "call" before processQuery runs, "done" after it
    resubmits,            \* requests made with an earlier processedQuery as query
    \* --- embeddings pipeline run (EmbeddingsPipeline, PipelineState) ---
    dataFile,             \* ./data-science-output.json : Null or Some(parsed content)
    inputData,            \* state.inputData : Null or Some(object)
    processedContent,     \* state.processedContent
    embeddings,           \* state.embeddings
    storedVectors,        \* state.storedVectors
    errors,               \* state.errors
    metrics,              \* state.metrics
    report,               \* state.report : Null or Some(report)
    chromaCollection,     \* records added to the ChromaDB collection
    collectionFile,       \* chroma_db/tech-content-vectors.json : Null or Some(embeddings)
    markerFile,           \* vector-db-config.json : Null or Some(marker)
    reportFile,           \* pipeline-report.json : Null or Some(report)
    stagesRun,            \* the graph nodes executed so far, in order
    pipePc,               \* the node to run next, "done" at END, "aborted" after a rejection
    \* --- HTTP server (server.js) ---
    chatAgent,            \* let chatAgent : Null or Some(agent)
    agentReady,           \* let agentReady
    serverPc,             \* "idle", "starting" before initializeAgent has run, "listening" after
    request,              \* body of the last POST /chat : Null before the first request
    httpResponse,         \* the answer to it : Null or Some(response)
    chatCalls,            \* the calls chatAgent.chat(query, conversationId) made so far
    requestCount,         \* POST /chat requests handled so far
    \* --- web content analyzer (WebContentAnalyzer) ---
    results,              \* this.results
    insights,             \* this.insights : Null or Some(insights)
    analyzerPc,           \* "idle", "ready" before fetchAndAnalyze, "done" after it
    \* --- keywordScore called on its own ---
    kwQuery,              \* argument query
    kwText,               \* argument text
    kwResult,             \* Null, or Some(score) once it has returned
    kwPc,                 \* "idle", "call" or "done"
    \* --- one chat request on the local search path ---
    retrievedContext,     \* state.retrievedContext
    sources,              \* Null, or Some(sources of the object chat returned)
    chatPc,               \* "idle", "search", "return" or "done"
    \* --- RAGChatAgent initialization ---
    initialized,          \* this.initialized
    graph,                \* this.graph : Null or Some("compiled")
    initCalls,            \* position of each call of RAGChatAgent.initializeAgent
    bodyRuns,             \* times the body behind the initialized guard was entered
    verified,             \* the calls whose verifyVectorDatabase succeeded
    graphInvocations,     \* this.graph as each chat() found it at graph.invoke
    \* --- chat() calls in flight ---
    chats,                \* per call: the node it waits at, its conversationId, its query
    appendLog             \* the history.push calls made, in order

chunkerVars == <<content, maxWords, chunks, chunkPc>>
memoryVars == <<conversationHistory>>
searchVars == <<vectorFile, localVectorIndex, embeddingCache, searchQuery,
                searchK, queryEmbedding, ranked, searchPc, embedCall>>
cosineVars == <<cosA, cosB, cosResult, cosPc>>
normalizerVars == <<currentQuery, conversationId, processedQuery, queryTermCount,
                    entityCount, normPc, resubmits>>
pipelineVars == <<dataFile, inputData, processedContent, embeddings, storedVectors,
                  errors, metrics, report, chromaCollection, collectionFile,
                  markerFile, reportFile, stagesRun, pipePc>>
serverVars == <<chatAgent, agentReady, serverPc, request, httpResponse, chatCalls,
                requestCount>>
analyzerVars == <<results, insights, analyzerPc>>
keywordVars == <<kwQuery, kwText, kwResult, kwPc>>
sourcesVars == <<retrievedContext, sources, chatPc>>
agentInitVars == <<initialized, graph, initCalls, bodyRuns, verified, graphInvocations>>
inflightVars == <<chats, appendLog>>

vars == <<chunkerVars, memoryVars, searchVars, cosineVars,
         normalizerVars,
         pipelineVars,
         serverVars,
         analyzerVars,
         keywordVars,
         sourcesVars,
         agentInitVars,
         inflightVars>>

(***************************************************************************)
(* Bounds of the explored input space.                                     *)
(***************************************************************************)
MaxLen == 5            \* longest text handed to the chunker
MaxWordsBound == 2     \* largest maxWords handed to the chunker
MaxTurns == 14         \* updateMemory calls explored per run
MaxRecords == 3        \* most records in the explored vector file
MaxK == 2              \* largest k handed to semanticLocalSearch
MaxDim == 2            \* longest vector handed to cosineSimilarity
MaxComp == 1           \* largest component magnitude of those vectors
MaxQueryWords == 2     \* most words of a query handed to processQuery
MaxResubmits == 2      \* times a processedQuery is submitted as a query again
MaxArticles == 11      \* most articles in the explored data-science-output.json
MaxKeywordWords == 3   \* most words of a query handed to keywordScore
MaxChats == 3          \* chat() calls in flight together
MaxRequests == 2       \* POST /chat requests explored per run

(***************************************************************************)
(* Values of a subsystem's variables while another subsystem is explored.  *)
(***************************************************************************)
\* A value that may be null or undefined is a sequence of length at most
\* one: Null, or Some(v) holding the value v.
Null == <<>>
Some(v) == <<v>>
ValueOf(o) == o[1]
NoHistory == [c \in {} |-> <<>>]    \* new Map()
NoCache == [q \in {} |-> <<>>]      \* new Map()

ChunkerIdle == content = <<>> /\ maxWords = 1 /\ chunks = <<>> /\ chunkPc = "idle"

MemoryIdle == conversationHistory = NoHistory

SearchAtRest ==
    /\ vectorFile = Null
    /\ localVectorIndex = Null
    /\ searchQuery = <<>>
    /\ searchK = 0
    /\ queryEmbedding = Null
    /\ ranked = <<>>
    /\ searchPc = "idle"
    /\ embedCall = "none"

SearchIdle == SearchAtRest /\ embeddingCache = NoCache

CosineIdle == cosA = Null /\ cosB = Null /\ cosResult = Null /\ cosPc = "idle"

NormalizerIdle ==
    /\ currentQuery = <<>>
    /\ conversationId = "c1"
    /\ processedQuery = <<>>
    /\ queryTermCount = 0
    /\ entityCount = 0
    /\ normPc = "idle"
    /\ resubmits = 0

\* new PipelineState()
NewMetrics == [processed |-> 0, embedded |-> 0, stored |-> 0, failed |-> 0]

FreshPipelineState ==
    /\ inputData = Null
    /\ processedContent = <<>>
    /\ embeddings = <<>>
    /\ storedVectors = <<>>
    /\ errors = <<>>
    /\ metrics = NewMetrics
    /\ report = Null

PipelineIdle ==
    /\ FreshPipelineState
    /\ dataFile = Null
    /\ chromaCollection = <<>>
    /\ collectionFile = Null
    /\ markerFile = Null
    /\ reportFile = Null
    /\ stagesRun = <<>>
    /\ pipePc = "idle"

\* let chatAgent = null; let agentReady = false;
ServerDown ==
    /\ chatAgent = Null
    /\ agentReady = FALSE
    /\ request = Null
    /\ httpResponse = Null
    /\ chatCalls = <<>>
    /\ requestCount = 0

ServerIdle == ServerDown /\ serverPc = "idle"

\* this.results = []; this.insights = {}
NewAnalyzer == results = <<>> /\ insights = Null

AnalyzerIdle == NewAnalyzer /\ analyzerPc = "idle"

KeywordIdle == kwQuery = <<>> /\ kwText = <<>> /\ kwResult = Null /\ kwPc = "idle"

SourcesIdle == retrievedContext = <<>> /\ sources = Null /\ chatPc = "idle"

\* no chat() call has been made
NoChats ==
    /\ chats = [r \in 1..MaxChats |->
                   [pc |-> "idle", conversationId |-> "", query |-> [lead |-> 0, words |-> 0, trail |-> 0]]]
    /\ appendLog = <<>>

\* no RAGChatAgent has been constructed
AgentNotBuilt ==
    /\ initialized = FALSE
    /\ graph = Null
    /\ initCalls = <<"notCalled", "notCalled">>
    /\ bodyRuns = 0
    /\ verified = {}
    /\ graphInvocations = <<>>

(***************************************************************************)
(* JavaScript string primitives used by the code.                          *)
(***************************************************************************)
Terminators == {".", "!", "?"}          \* the class [.!?]
Whitespace == {" ", "\n"}               \* what trim() and \s strip
Alphabet == {"a", "b", " ", "\n", "."}  \* characters of the explored texts

RECURSIVE SkipSeps(_, _, _)
\* index of the first character at or after i that is not in seps
SkipSeps(s, seps, i) ==
    IF i > Len(s) \/ s[i] \notin seps THEN i ELSE SkipSeps(s, seps, i + 1)

\* index of the first character at or after i that is in seps, Len(s) + 1
\* when there is none
NextSep(s, seps, i) ==
    LET ahead == {j \in i..Len(s) : s[j] \in seps}
    IN  IF ahead = {} THEN Len(s) + 1
        ELSE CHOOSE j \in ahead : \A q \in ahead : j <= q

RECURSIVE SplitCharFrom(_, _, _)
\* the pieces of s from index i on, one piece per step
SplitCharFrom(s, seps, i) ==
    LET j == NextSep(s, seps, i)
    IN  IF j > Len(s) THEN <<SubSeq(s, i, Len(s))>>
        ELSE <<SubSeq(s, i, j - 1)>> \o SplitCharFrom(s, seps, j + 1)

\* String.prototype.split(' ') : one separator character per cut
SplitChar(s, seps) == SplitCharFrom(s, seps, 1)

RECURSIVE SplitRunsFrom(_, _, _)
SplitRunsFrom(s, seps, i) ==
    LET j == NextSep(s, seps, i)
    IN  IF j > Len(s) THEN <<SubSeq(s, i, Len(s))>>
        ELSE <<SubSeq(s, i, j - 1)>> \o SplitRunsFrom(s, seps, SkipSeps(s, seps, j))

\* String.prototype.split(/[...]+/) : a maximal run of separators per cut
SplitRuns(s, seps) == SplitRunsFrom(s, seps, 1)

RECURSIVE TrimStart(_)
TrimStart(s) ==
    IF s # <<>> /\ Head(s) \in Whitespace THEN TrimStart(Tail(s)) ELSE s

RECURSIVE TrimEnd(_)
TrimEnd(s) ==
    IF s # <<>> /\ s[Len(s)] \in Whitespace
    THEN TrimEnd(SubSeq(s, 1, Len(s) - 1)) ELSE s

\* String.prototype.trim()
Trim(s) == TrimEnd(TrimStart(s))

RECURSIVE Join(_, _)
\* Array.prototype.join(sep)
Join(parts, sep) ==
    IF parts = <<>> THEN <<>>
    ELSE IF Len(parts) = 1 THEN parts[1]
    ELSE parts[1] \o sep \o Join(Tail(parts), sep)

\* Array.prototype.slice(from, to) with 0-based, end-exclusive bounds
Slice(seq, from, to) ==
    SubSeq(seq, from + 1, IF to < Len(seq) THEN to ELSE Len(seq))

(***************************************************************************)
(* EmbeddingsPipeline.createSimpleChunks                                   *)
(***************************************************************************)
NonBlank(s) == Len(Trim(s)) > 0

\* const sentences = content.split(/[.!?]+/).filter(s => s.trim().length > 0)
SentencesOf(text) == SelectSeq(SplitRuns(text, Terminators), NonBlank)

\* sentence.trim().split(' ').length
WordCount(s) == Len(SplitChar(s, {" "}))

RECURSIVE ChunkLoopLateCheck(_, _, _, _, _, _)
\* ChunkLoop that tests the budget before counting the next sentence
ChunkLoopLateCheck(sentences, i, acc, cur, cnt, mw) ==
    IF i > Len(sentences) THEN [chunks |-> acc, currentChunk |-> cur]
    ELSE LET sentence == sentences[i]
             sentenceWords == WordCount(Trim(sentence))
         IN  IF cnt > mw /\ Len(cur) > 0
             THEN ChunkLoopLateCheck(sentences, i + 1, Append(acc, Trim(cur)),
                                     Trim(sentence), sentenceWords, mw)
             ELSE ChunkLoopLateCheck(sentences, i + 1, acc,
                                     IF Len(cur) > 0
                                     THEN cur \o <<".", " ">> \o Trim(sentence)
                                     ELSE Trim(sentence),
                                     cnt + sentenceWords, mw)

RECURSIVE ChunkLoop(_, _, _, _, _, _)
\* the for-loop over sentences; acc = chunks, cur = currentChunk,
\* cnt = currentWordCount
ChunkLoop(sentences, i, acc, cur, cnt, mw) ==
    IF i > Len(sentences) THEN [chunks |-> acc, currentChunk |-> cur]
    ELSE LET sentence == sentences[i]
             sentenceWords == WordCount(Trim(sentence))
         IN  IF cnt + sentenceWords > mw /\ Len(cur) > 0
             THEN ChunkLoop(sentences, i + 1, Append(acc, Trim(cur)),
                            Trim(sentence), sentenceWords, mw)
             ELSE ChunkLoop(sentences, i + 1, acc,
                            IF Len(cur) > 0
                            THEN cur \o <<".", " ">> \o Trim(sentence)
                            ELSE Trim(sentence),
                            cnt + sentenceWords, mw)

RECURSIVE WordSlices(_, _, _)
\* for (let i = 0; i < words.length; i += maxWords) chunks.push(...)
WordSlices(words, i, mw) ==
    IF i >= Len(words) THEN <<>>
    ELSE <<Join(Slice(words, i, i + mw), <<" ">>)>> \o WordSlices(words, i + mw, mw)

\* createSimpleChunks without the push of the trailing chunk
createSimpleChunksDropsLast(text, mw) ==
    LET loop == ChunkLoop(SentencesOf(text), 1, <<>>, <<>>, 0, mw)
    IN  IF Len(loop.chunks) = 0
        THEN WordSlices(SplitChar(text, {" "}), 0, mw)
        ELSE loop.chunks

createSimpleChunks(text, mw) ==
    LET loop == ChunkLoop(SentencesOf(text), 1, <<>>, <<>>, 0, mw)
        withLast == IF Len(Trim(loop.currentChunk)) > 0
                    THEN Append(loop.chunks, Trim(loop.currentChunk))
                    ELSE loop.chunks
    IN  IF Len(withLast) = 0
        THEN WordSlices(SplitChar(text, {" "}), 0, mw)
        ELSE withLast

(***************************************************************************)
(* Chunker specification: the inputs are drawn in Init, one call is made.  *)
(***************************************************************************)
RECURSIVE StringsUpTo(_)
StringsUpTo(n) ==
    IF n = 0 THEN {<<>>}
    ELSE LET shorter == StringsUpTo(n - 1)
         IN  shorter \cup {Append(s, c) : s \in shorter, c \in Alphabet}

InitChunker ==
    /\ content \in StringsUpTo(MaxLen)
    /\ maxWords \in 1..MaxWordsBound
    /\ chunks = <<>>
    /\ chunkPc = "call"
    /\ MemoryIdle /\ SearchIdle /\ CosineIdle /\ NormalizerIdle /\ PipelineIdle /\ ServerIdle /\ AnalyzerIdle /\ KeywordIdle /\ SourcesIdle /\ AgentNotBuilt /\ NoChats

CallCreateSimpleChunks ==
    /\ chunkPc = "call"
    /\ chunks' = createSimpleChunks(content, maxWords)
    /\ chunkPc' = "done"
    /\ UNCHANGED <<content, maxWords, memoryVars, searchVars, cosineVars, normalizerVars, pipelineVars, serverVars, analyzerVars, keywordVars, sourcesVars, agentInitVars, inflightVars>>

NextChunker == CallCreateSimpleChunks

SpecChunker == InitChunker /\ [][NextChunker]_vars

(***************************************************************************)
(* Chunker: claims                                                         *)
(***************************************************************************)
RECURSIVE Flatten(_)
Flatten(seqs) == IF seqs = <<>> THEN <<>> ELSE Head(seqs) \o Flatten(Tail(seqs))

\* the non-blank sentences of a text, each without surrounding whitespace
TrimmedSentences(text) ==
    [i \in 1..Len(SentencesOf(text)) |-> Trim(SentencesOf(text)[i])]

\* C3: re-reading the sentences of the returned chunks, in chunk order,
\* gives exactly the non-blank sentences of the text in their order: none
\* duplicated, dropped or split across two chunks.
C3_SentencesPreserved ==
    chunkPc = "done" =>
        Flatten([i \in 1..Len(chunks) |-> TrimmedSentences(chunks[i])])
            = TrimmedSentences(content)

\* three sentences spread over two chunks, one chunk holding two of them
C3_Witness ==
    /\ chunkPc = "done"
    /\ Len(SentencesOf(content)) = 3
    /\ Len(chunks) = 2
    /\ \E i \in 1..Len(chunks) : Len(SentencesOf(chunks[i])) = 2

\* C4 (as claimed): every returned chunk is a non-empty string, for every
\* text including the empty and the whitespace-only one.
C4_NoEmptyChunk ==
    chunkPc = "done" => \A i \in 1..Len(chunks) : Len(chunks[i]) > 0

CeilDiv(a, b) == (a + b - 1) \div b

\* C25 (as claimed): for a non-empty text without sentence terminator that
\* has more than maxWords words, createSimpleChunks returns the word slices:
\* ceil(words / maxWords) chunks of at most maxWords words each.
C25_WordSliceFallback ==
    (/\ chunkPc = "done"
     /\ Len(content) > 0
     /\ \A i \in 1..Len(content) : content[i] \notin Terminators
     /\ WordCount(content) > maxWords)
        => /\ Len(chunks) = CeilDiv(WordCount(content), maxWords)
           /\ \A i \in 1..Len(chunks) : WordCount(chunks[i]) <= maxWords

(***************************************************************************)
(* RAGChatAgent.updateMemory                                               *)
(* A turn's query and response are long texts (thousands of words), so a   *)
(* text is represented by what split(/\s+/) sees of it: whether it starts  *)
(* with whitespace, how many words it has, whether it ends with            *)
(* whitespace.  A turn carries the ordinal of the updateMemory call that   *)
(* appended it to its conversation (the identity its timestamp gives it).  *)
(***************************************************************************)
MaxTurnsKept == 12     \* if (history.length > 12)
TokenBudget == 4000    \* if (approxTokens > 4000)
PruneTarget == 3200    \* ... > 3200  ("threshold * 0.8")

Text(lead, words, trail) == [lead |-> lead, words |-> words, trail |-> trail]

\* text.split(/\s+/).length : "" gives [""], "  " gives ["", ""], and a
\* leading or trailing run of whitespace adds one empty piece each
SplitWsLen(t) ==
    IF t.words = 0
    THEN (IF t.lead + t.trail > 0 THEN 2 ELSE 1)
    ELSE t.words + t.lead + t.trail

TurnTokens(t) == SplitWsLen(t.query) + SplitWsLen(t.response)

RECURSIVE ApproxTokens(_)
\* history.reduce((acc, t) => acc + t.query.split(/\s+/).length
\*                                + t.response.split(/\s+/).length, 0)
ApproxTokens(history) ==
    IF history = <<>> THEN 0
    ELSE TurnTokens(Head(history)) + ApproxTokens(Tail(history))

\* CapTurns with the splice count off by one (history.length - 13)
CapTurnsOffByOne(history) ==
    IF Len(history) > MaxTurnsKept
    THEN SubSeq(history, Len(history) - MaxTurnsKept, Len(history))
    ELSE history

\* if (history.length > 12) history.splice(0, history.length - 12)
CapTurns(history) ==
    IF Len(history) > MaxTurnsKept
    THEN SubSeq(history, Len(history) - MaxTurnsKept + 1, Len(history))
    ELSE history

RECURSIVE ShiftWhileOverBudget(_)
\* ShiftWhileOver that stops at the budget itself instead of 80% of it
ShiftWhileOverBudget(history) ==
    IF Len(history) > 1 /\ ApproxTokens(history) > TokenBudget
    THEN ShiftWhileOverBudget(Tail(history))
    ELSE history

RECURSIVE ShiftWhileOver(_)
\* while (history.length > 1 && tokens(history) > 3200) history.shift()
ShiftWhileOver(history) ==
    IF Len(history) > 1 /\ ApproxTokens(history) > PruneTarget
    THEN ShiftWhileOver(Tail(history))
    ELSE history

\* if (approxTokens > 4000) { while ... }
PruneTokens(history) ==
    IF ApproxTokens(history) > TokenBudget
    THEN ShiftWhileOver(history)
    ELSE history

\* the array stored for the conversation after push, cap and pruning
MemoryAfter(history, turn) == PruneTokens(CapTurns(Append(history, turn)))

\* conversation ids of the memory specification
ConvIds == {"c1"}

\* the queries and responses of the explored turns: a short, a long and an
\* oversized message (the last as a direct caller of chat may pass it, with
\* surrounding whitespace), each answered by a response of 40 words
Queries == {Text(0, 1, 0), Text(0, 1600, 0), Text(1, 4500, 1)}
Responses == {Text(0, 40, 0)}

HistoryOf(c) ==
    IF c \in DOMAIN conversationHistory THEN conversationHistory[c] ELSE <<>>

\* number of updateMemory calls made so far for conversation c
TurnsSoFar(c) == IF HistoryOf(c) = <<>> THEN 0 ELSE HistoryOf(c)[Len(HistoryOf(c))].turn

updateMemory(c, q, r) ==
    /\ LET conversationTurn == [turn |-> TurnsSoFar(c) + 1, query |-> q, response |-> r]
       IN  conversationHistory' =
               (c :> MemoryAfter(HistoryOf(c), conversationTurn)) @@ conversationHistory
    /\ UNCHANGED <<chunkerVars, searchVars, cosineVars, normalizerVars, pipelineVars, serverVars, analyzerVars, keywordVars, sourcesVars, agentInitVars, inflightVars>>

InitMemory ==
    /\ conversationHistory = NoHistory
    /\ ChunkerIdle /\ SearchIdle /\ CosineIdle /\ NormalizerIdle /\ PipelineIdle /\ ServerIdle /\ AnalyzerIdle /\ KeywordIdle /\ SourcesIdle /\ AgentNotBuilt /\ NoChats

NextMemory ==
    \E c \in ConvIds, q \in Queries, r \in Responses :
        TurnsSoFar(c) < MaxTurns /\ updateMemory(c, q, r)

SpecMemory == InitMemory /\ [][NextMemory]_vars

(***************************************************************************)
(* Conversation memory: claims                                             *)
(***************************************************************************)
Min(a, b) == IF a < b THEN a ELSE b

TurnNumbers(h) == [i \in 1..Len(h) |-> h[i].turn]

\* the newest (at most) n elements of a list
NewestOf(h, n) == [i \in 1..Min(n, Len(h)) |-> h[Len(h) - Min(n, Len(h)) + i]]

IsSuffixOf(s, h) == Len(s) <= Len(h) /\ s = NewestOf(h, Len(s))

\* the turn an updateMemory step appended to conversation c
Appended(c) == HistoryOf(c)'[Len(HistoryOf(c)')]

Updated(c) == HistoryOf(c)' # HistoryOf(c)

\* C1 (as claimed): the stored list holds at most 12 turns in append order,
\* most recent last, and after 13 turns exactly turns #2..#13 remain.
C1_TurnCapExact ==
    \A c \in DOMAIN conversationHistory :
        LET h == conversationHistory[c]
        IN  /\ Len(h) <= 12
            /\ \A i \in 1..(Len(h) - 1) : h[i].turn < h[i + 1].turn
            /\ TurnsSoFar(c) = 13 => TurnNumbers(h) = [i \in 1..12 |-> i + 1]

C1_Stored ==
    \A c \in DOMAIN conversationHistory :
        LET h == conversationHistory[c]
        IN  /\ Len(h) >= 1 /\ Len(h) <= 12
            /\ \A i \in 1..(Len(h) - 1) : h[i + 1].turn = h[i].turn + 1
            /\ TurnsSoFar(c) >= 13 => h[1].turn >= 2

C1_Step ==
    \A c \in ConvIds :
        Updated(c) =>
            LET window == NewestOf(Append(HistoryOf(c), Appended(c)), 12)
            IN  /\ Appended(c).turn = TurnsSoFar(c) + 1
                /\ IsSuffixOf(HistoryOf(c)', window)
                /\ ApproxTokens(window) <= 4000 => HistoryOf(c)' = window

\* C1 (amended): the stored list holds between 1 and 12 turns, a contiguous
\* run of the most recently appended turns in append order with the newest
\* last; every updateMemory leaves exactly the newest 12 of (old list + new
\* turn) unless their token total exceeds 4000; after 13 turns turn #1 is
\* gone, and #2..#13 all remain only when the token budget evicted nothing.
C1_TurnCap == []C1_Stored /\ [][C1_Step]_vars

\* thirteen turns appended, none pruned by the budget: #2..#13 are stored
C1_Witness ==
    \E c \in DOMAIN conversationHistory :
        /\ TurnsSoFar(c) = 13
        /\ TurnNumbers(conversationHistory[c]) = [i \in 1..12 |-> i + 1]

C2_Stored ==
    \A c \in DOMAIN conversationHistory :
        LET h == conversationHistory[c]
        IN  ApproxTokens(h) <= 4000 \/ Len(h) = 1

C2_StepPostAppend ==
    \A c \in ConvIds :
        Updated(c) =>
            LET postAppend == ApproxTokens(Append(HistoryOf(c), Appended(c)))
            IN  /\ Appended(c).turn = TurnsSoFar(c) + 1
                /\ postAppend > 4000 =>
                       \/ ApproxTokens(HistoryOf(c)') <= 3200
                       \/ Len(HistoryOf(c)') = 1

\* C2 (as claimed): the stored token total is at most 4000 unless one turn
\* is stored; whenever the post-append total exceeds 4000 the oldest turns
\* go until the total is at most 3200 or only the newest turn remains.
C2_TokenBudgetPostAppend == []C2_Stored /\ [][C2_StepPostAppend]_vars

C2_Step ==
    \A c \in ConvIds :
        Updated(c) =>
            LET window == NewestOf(Append(HistoryOf(c), Appended(c)), 12)
            IN  /\ Appended(c).turn = TurnsSoFar(c) + 1
                /\ ApproxTokens(window) > 4000 =>
                       \/ ApproxTokens(HistoryOf(c)') <= 3200
                       \/ Len(HistoryOf(c)') = 1

\* C2 (amended): the stored token total is at most 4000 unless one turn is
\* stored; whenever the total measured after the append AND the 12-turn cap
\* exceeds 4000 the oldest turns go until the total is at most 3200 or only
\* the newest turn remains; the newest turn is never evicted.
C2_TokenBudget == []C2_Stored /\ [][C2_Step]_vars

\* the budget evicted old turns and more than the newest turn survived
C2_Witness ==
    \E c \in DOMAIN conversationHistory :
        LET h == conversationHistory[c]
        IN  /\ Len(h) > 1 /\ Len(h) < 12
            /\ h[1].turn > 1
            /\ ApproxTokens(h) <= 3200
            /\ \E i \in 1..Len(h) : TurnTokens(h[i]) > 1000

(***************************************************************************)
(* Similarity scores.                                                      *)
(* The code computes scores in floating point.  For the small integer      *)
(* vectors explored here a score is kept exactly, as the real number       *)
(*        d / (sqrt(p) + e * 1e-12)                                        *)
(* given by the integers d, p and the flag e: cosineSimilarity yields      *)
(* d = dot, p = na * nb, e = 1; the constant -1 is d = -1, p = 1, e = 0;   *)
(* keywordScore's hits / n is d = hits, p = n * n, e = 0.  Two scores are  *)
(* compared by sign, then by d^2 / p, and when those agree by the effect   *)
(* of the 1e-12 in the denominator (all |d|, p stay far below 1e5, so a    *)
(* difference in d^2 / p always outweighs it).                             *)
(***************************************************************************)
Score(d, p, e) == [d |-> d, p |-> p, e |-> e]

MinusOne == Score(-1, 1, 0)

Sign(x) == IF x > 0 THEN 1 ELSE IF x < 0 THEN -1 ELSE 0

Abs(x) == IF x < 0 THEN -x ELSE x

\* sign of s - t for two positive scores
PosCmp(s, t) ==
    LET l == s.d * s.d * t.p - t.d * t.d * s.p
    IN  IF l # 0 THEN Sign(l) ELSE Sign(s.d * t.e - t.d * s.e)

\* sign of s - t
ScoreCmp(s, t) ==
    IF Sign(s.d) # Sign(t.d) THEN Sign(Sign(s.d) - Sign(t.d))
    ELSE IF s.d = 0 THEN 0
    ELSE IF s.d > 0 THEN PosCmp(s, t)
    ELSE PosCmp(Score(Abs(t.d), t.p, t.e), Score(Abs(s.d), s.p, s.e))

\* |s - 1| <= 1e-6 : cosine 1 up to the 1e-12 in the denominator
WithinToleranceOfOne(s) == s.d > 0 /\ s.d * s.d = s.p

\* s is exactly the number -1
IsMinusOne(s) == s.d < 0 /\ s.d * s.d = s.p /\ s.e = 0

\* s is exactly the number 0
IsZeroScore(s) == s.d = 0

(***************************************************************************)
(* RAGChatAgent.cosineSimilarity                                           *)
(***************************************************************************)
RECURSIVE Dot(_, _)
\* the loop's  dot += x * y  (and na, nb with a = b)
Dot(a, b) ==
    IF a = <<>> THEN 0 ELSE Head(a) * Head(b) + Dot(Tail(a), Tail(b))

\* cosineSimilarity with the two square roots left out of the denominator
cosineSimilarityNoSqrt(a, b) ==
    IF a = Null \/ b = Null THEN MinusOne
    ELSE IF Len(ValueOf(a)) # Len(ValueOf(b)) THEN MinusOne
    ELSE LET na == Dot(ValueOf(a), ValueOf(a))
             nb == Dot(ValueOf(b), ValueOf(b))
         IN  Score(Dot(ValueOf(a), ValueOf(b)), (na * nb) * (na * nb), 1)

\* if (!a || !b || a.length !== b.length) return -1;
\* return dot / (Math.sqrt(na) * Math.sqrt(nb) + 1e-12)
cosineSimilarity(a, b) ==
    IF a = Null \/ b = Null THEN MinusOne
    ELSE IF Len(ValueOf(a)) # Len(ValueOf(b)) THEN MinusOne
    ELSE LET na == Dot(ValueOf(a), ValueOf(a))
             nb == Dot(ValueOf(b), ValueOf(b))
         IN  Score(Dot(ValueOf(a), ValueOf(b)), na * nb, 1)

(***************************************************************************)
(* cosineSimilarity as a function: arguments drawn in Init, one call.      *)
(***************************************************************************)
RECURSIVE VectorsUpTo(_)
\* the integer vectors of length at most n
VectorsUpTo(n) ==
    IF n = 0 THEN {<<>>}
    ELSE LET shorter == VectorsUpTo(n - 1)
         IN  shorter \cup {Append(v, x) : v \in shorter, x \in (-MaxComp)..MaxComp}

IsZeroVector(v) == \A i \in 1..Len(v) : v[i] = 0

CosineArgs == {Null} \cup {Some(v) : v \in VectorsUpTo(MaxDim)}

InitCosine ==
    /\ cosA \in CosineArgs
    /\ cosB \in CosineArgs
    /\ cosResult = Null
    /\ cosPc = "call"
    /\ ChunkerIdle /\ MemoryIdle /\ SearchIdle /\ NormalizerIdle /\ PipelineIdle /\ ServerIdle /\ AnalyzerIdle /\ KeywordIdle /\ SourcesIdle /\ AgentNotBuilt /\ NoChats

CallCosineSimilarity ==
    /\ cosPc = "call"
    /\ cosResult' = Some(cosineSimilarity(cosA, cosB))
    /\ cosPc' = "done"
    /\ UNCHANGED <<cosA, cosB, chunkerVars, memoryVars, searchVars, normalizerVars, pipelineVars, serverVars, analyzerVars, keywordVars, sourcesVars, agentInitVars, inflightVars>>

NextCosine == CallCosineSimilarity

SpecCosine == InitCosine /\ [][NextCosine]_vars

NonWordChars == {" ", "\n", ".", "!", "?", ",", "|"}

LowerOf(ch) ==
    IF ch = "M" THEN "m" ELSE IF ch = "L" THEN "l" ELSE IF ch = "A" THEN "a"
    ELSE IF ch = "D" THEN "d" ELSE ch

\* String.prototype.toLowerCase()
ToLower(str) == [i \in 1..Len(str) |-> LowerOf(str[i])]

\* String.prototype.includes(t)
Includes(str, t) ==
    \E i \in 0..(Len(str) - Len(t)) : SubSeq(str, i + 1, i + Len(t)) = t

NonEmpty(str) == Len(str) > 0

\* [...new Set(query.split(/\W+/).filter(Boolean))]
QueryTerms(query) ==
    LET tokens == SelectSeq(SplitRuns(query, NonWordChars), NonEmpty)
    IN  {tokens[i] : i \in 1..Len(tokens)}

\* keywordScore without the Set: every occurrence of a token counts
keywordScoreAllTokens(query, text) ==
    LET tokens == SelectSeq(SplitRuns(query, NonWordChars), NonEmpty)
        lower == ToLower(text)
        hits == Cardinality({i \in 1..Len(tokens) : Includes(lower, tokens[i])})
        n == IF Len(tokens) = 0 THEN 1 ELSE Len(tokens)
    IN  Score(hits, n * n, 0)

\* hits / (qTerms.length || 1)
keywordScore(query, text) ==
    LET qTerms == QueryTerms(query)
        lower == ToLower(text)
        hits == Cardinality({t \in qTerms : Includes(lower, t)})
        n == IF Cardinality(qTerms) = 0 THEN 1 ELSE Cardinality(qTerms)
    IN  Score(hits, n * n, 0)

(***************************************************************************)
(* Keyword specification: keywordScore is called on a query and a text.    *)
(***************************************************************************)
CallKeywordScore ==
    /\ kwPc = "call"
    /\ kwResult' = Some(keywordScore(kwQuery, kwText))
    /\ kwPc' = "done"
    /\ UNCHANGED <<kwQuery, kwText>>
    /\ UNCHANGED <<chunkerVars, memoryVars, searchVars, cosineVars, normalizerVars,
                   pipelineVars, serverVars, analyzerVars, sourcesVars, agentInitVars, inflightVars>>

KeywordWords == {<<"m", "l">>, <<"x">>, <<"M", "L">>}

RECURSIVE KeywordWordLists(_)
KeywordWordLists(n) ==
    IF n = 0 THEN {<<>>}
    ELSE LET shorter == KeywordWordLists(n - 1)
         IN  shorter \cup {Append(l, w) : l \in shorter, w \in KeywordWords}

KeywordQueries ==
    {lead \o Join(l, <<" ">>) : lead \in {<<>>, <<",", " ">>}, l \in KeywordWordLists(MaxKeywordWords)}

KeywordTexts == {<<>>, <<"M", "L">>, <<"h", "t", "m", "l">>, <<"a", "x", " ", "m", "l">>, <<"y">>}

InitKeyword ==
    /\ kwQuery \in KeywordQueries
    /\ kwText \in KeywordTexts
    /\ kwResult = Null
    /\ kwPc = "call"
    /\ ChunkerIdle /\ MemoryIdle /\ SearchIdle /\ CosineIdle /\ NormalizerIdle /\ PipelineIdle /\ ServerIdle /\ AnalyzerIdle /\ SourcesIdle /\ AgentNotBuilt /\ NoChats

NextKeyword == CallKeywordScore

SpecKeyword == InitKeyword /\ [][NextKeyword]_vars

\* the distinct tokens of a query: its maximal runs of word characters
DistinctTokens(query) ==
    {SubSeq(query, i, j) : <<i, j>> \in
        {pair \in (1..Len(query)) \X (1..Len(query)) :
            /\ pair[1] <= pair[2]
            /\ \A n \in pair[1]..pair[2] : query[n] \notin NonWordChars
            /\ pair[1] = 1 \/ query[pair[1] - 1] \in NonWordChars
            /\ pair[2] = Len(query) \/ query[pair[2] + 1] \in NonWordChars}}

TokensFound == {t \in DistinctTokens(kwQuery) : Includes(ToLower(kwText), t)}

\* C24: keywordScore(query, text) is the number of distinct query tokens
\* that occur as substrings of the lower-cased text divided by the number
\* of distinct query tokens; it lies in [0, 1]; it is 0 for every text when
\* the query has no token.
C24_KeywordScore ==
    kwPc = "done" =>
        LET score == ValueOf(kwResult)
            total == Cardinality(DistinctTokens(kwQuery))
        IN  /\ total > 0 =>
                   ScoreCmp(score, Score(Cardinality(TokensFound), total * total, 0)) = 0
            /\ total = 0 => IsZeroScore(score)
            /\ ScoreCmp(score, Score(0, 1, 0)) >= 0
            /\ ScoreCmp(score, Score(1, 1, 0)) <= 0

\* a query that repeats a token scored strictly between 0 and 1
C24_Witness ==
    /\ kwPc = "done"
    /\ kwQuery = <<"m", "l", " ", "m", "l", " ", "M", "L">>
    /\ Cardinality(TokensFound) = 1
    /\ ScoreCmp(ValueOf(kwResult), Score(1, 4, 0)) = 0

(***************************************************************************)
(* RAGChatAgent.ensureLocalVectorIndex                                     *)
(* A parsed file is [shape, records]: shape "array" is a flat array of     *)
(* records (as is the "vectors" field), shape "embeddings" the object the  *)
(* pipeline writes.  A record's vector is Null when the field is missing.  *)
(***************************************************************************)
\* raw.embeddings.map(e => ({ ..., vector: e.vector || e.embedding || [] }))
FromEmbeddings(records) ==
    [i \in 1..Len(records) |->
        [records[i] EXCEPT !.vector = IF @ = Null THEN Some(<<>>) ELSE @]]

RecordsOf(file) ==
    IF file.shape = "embeddings" THEN FromEmbeddings(file.records) ELSE file.records

\* the three throws: no file, no records, records[0].vector undefined
LoadThrows(file) ==
    \/ file = Null
    \/ Len(RecordsOf(ValueOf(file))) = 0
    \/ RecordsOf(ValueOf(file))[1].vector = Null

\* LoadedIndex without the filter of malformed records
LoadedIndexUnfiltered(file) ==
    LET records == RecordsOf(ValueOf(file))
        dim == Len(ValueOf(records[1].vector))
    IN  [vectors |-> records, dim |-> dim]

\* const dim = records[0].vector.length;
\* records = records.filter(r => Array.isArray(r.vector) && r.vector.length === dim)
LoadedIndex(file) ==
    LET records == RecordsOf(ValueOf(file))
        dim == Len(ValueOf(records[1].vector))
        WellFormed(r) == r.vector # Null /\ Len(ValueOf(r.vector)) = dim
    IN  [vectors |-> SelectSeq(records, WellFormed), dim |-> dim]

\* if (this.localVectorIndex) return this.localVectorIndex;
IndexThrows == localVectorIndex = Null /\ LoadThrows(vectorFile)

ensureLocalVectorIndex ==
    IF localVectorIndex # Null THEN ValueOf(localVectorIndex)
    ELSE LoadedIndex(vectorFile)

(***************************************************************************)
(* RAGChatAgent.embedQuery : bedrock is the outcome of the embedding call, *)
(* Null when it is skipped or fails, Some(array) when it succeeds.         *)
(***************************************************************************)
embedQuery(text, bedrock) ==
    IF text \in DOMAIN embeddingCache THEN Some(embeddingCache[text]) ELSE bedrock

CacheAfterEmbed(text, bedrock) ==
    IF text \in DOMAIN embeddingCache \/ bedrock = Null
    THEN embeddingCache
    ELSE (text :> ValueOf(bedrock)) @@ embeddingCache

\* the return statement embedQuery leaves by: the cache hit, one of the two
\* "return null" (call skipped by SKIP_EMBEDDING_FALLBACK, or call failed),
\* or the embedding the call returned
EmbedPath(text, bedrock) ==
    IF text \in DOMAIN embeddingCache THEN "cached"
    ELSE IF bedrock = Null THEN "failed" ELSE "returned"

(***************************************************************************)
(* RAGChatAgent.semanticLocalSearch                                        *)
(***************************************************************************)
\* UsesCosine without the comparison of the lengths
UsesCosineAnyLength(embedding, index) == embedding # Null

\* if (queryEmbedding && queryEmbedding.length === index.dim)
UsesCosine(embedding, index) ==
    embedding # Null /\ Len(ValueOf(embedding)) = index.dim

SimilarityOf(r, query, embedding, index) ==
    IF UsesCosine(embedding, index)
    THEN cosineSimilarity(embedding, r.vector)
    ELSE keywordScore(ToLower(query), r.content)

\* index.vectors.map(r => ({ ...r, similarity: ... }))
Scored(query, embedding, index) ==
    [i \in 1..Len(index.vectors) |->
        [id |-> index.vectors[i].id,
         vector |-> index.vectors[i].vector,
         content |-> index.vectors[i].content,
         similarity |-> SimilarityOf(index.vectors[i], query, embedding, index)]]

RECURSIVE InsertDescBeforeTies(_, _)
\* InsertDesc that also moves x ahead of the elements it ties with
InsertDescBeforeTies(sorted, x) ==
    IF sorted = <<>> THEN <<x>>
    ELSE IF ScoreCmp(x.similarity, Head(sorted).similarity) >= 0
         THEN <<x>> \o sorted
         ELSE <<Head(sorted)>> \o InsertDescBeforeTies(Tail(sorted), x)

RECURSIVE InsertDesc(_, _)
\* x is placed behind every element a for which b.similarity - a.similarity
\* is not positive with b = x  (Array.prototype.sort is stable)
InsertDesc(sorted, x) ==
    IF sorted = <<>> THEN <<x>>
    ELSE IF ScoreCmp(x.similarity, Head(sorted).similarity) > 0
         THEN <<x>> \o sorted
         ELSE <<Head(sorted)>> \o InsertDesc(Tail(sorted), x)

RECURSIVE InsertAsc(_, _)
InsertAsc(sorted, x) ==
    IF sorted = <<>> THEN <<x>>
    ELSE IF ScoreCmp(x.similarity, Head(sorted).similarity) < 0
         THEN <<x>> \o sorted
         ELSE <<Head(sorted)>> \o InsertAsc(Tail(sorted), x)

RECURSIVE SortAscending(_)
\* SortDescending with the comparator's operands swapped (a - b)
SortAscending(scored) ==
    IF scored = <<>> THEN <<>>
    ELSE InsertAsc(SortAscending(SubSeq(scored, 1, Len(scored) - 1)), scored[Len(scored)])

RECURSIVE SortDescending(_)
\* scored.sort((a, b) => b.similarity - a.similarity)
SortDescending(scored) ==
    IF scored = <<>> THEN <<>>
    ELSE InsertDesc(SortDescending(SubSeq(scored, 1, Len(scored) - 1)), scored[Len(scored)])

\* TopK that returns one element too many
TopKOneMore(sorted, k) == Slice(sorted, 0, k + 1)

\* scored.slice(0, k)
TopK(sorted, k) == Slice(sorted, 0, k)

semanticLocalSearch(query, k, bedrock) ==
    /\ searchQuery' = query
    /\ searchK' = k
    /\ IF IndexThrows
       THEN /\ searchPc' = "threw"
            /\ ranked' = <<>>
            /\ queryEmbedding' = Null
            /\ embedCall' = "none"
            /\ UNCHANGED <<localVectorIndex, embeddingCache>>
       ELSE LET index == ensureLocalVectorIndex
                embedding == embedQuery(query, bedrock)
            IN  /\ localVectorIndex' = Some(index)
                /\ embeddingCache' = CacheAfterEmbed(query, bedrock)
                /\ queryEmbedding' = embedding
                /\ embedCall' = EmbedPath(query, bedrock)
                /\ ranked' = TopK(SortDescending(Scored(query, embedding, index)), k)
                /\ searchPc' = "done"
    /\ UNCHANGED <<vectorFile, chunkerVars, memoryVars, cosineVars, normalizerVars, pipelineVars, serverVars, analyzerVars, keywordVars, sourcesVars, agentInitVars, inflightVars>>

(***************************************************************************)
(* Ranker specification: a vector file is drawn in Init, then searches     *)
(* are made against it.                                                    *)
(***************************************************************************)
Rec(id, vector, text) == [id |-> id, vector |-> vector, content |-> text]

\* records of the explored files: the two of the documented scenario, one
\* opposite to a, one all-zero, one along a but twice as long, one equal to
\* a's vector, one of another length
RecordPool ==
    { Rec("a", Some(<<1, 0>>), <<"M", "L", " ", "a">>),
      Rec("e", Some(<<2, 0>>), <<"a">>),
      Rec("b", Some(<<0, 1>>), <<"z">>),
      Rec("c", Some(<<-1, 0>>), <<"m", "l">>),
      Rec("d", Some(<<0, 0>>), <<"m", "l", " ", "x">>),
      Rec("f", Some(<<1, 0>>), <<"m", "l", " ", "a">>),
      Rec("g", Some(<<0, 1, 0>>), <<"x">>) }

RECURSIVE RecordLists(_)
\* the lists of at most n records with distinct ids
RecordLists(n) ==
    IF n = 0 THEN {<<>>}
    ELSE LET shorter == RecordLists(n - 1)
         IN  shorter \cup
             {Append(l, r) : l \in shorter, r \in RecordPool}

DistinctIds(l) == \A i, j \in 1..Len(l) : l[i].id = l[j].id => i = j

RankerFiles ==
    {Null} \cup
    {Some([shape |-> "embeddings", records |-> l]) :
        l \in {x \in RecordLists(MaxRecords) : DistinctIds(x)}}

SearchQueries == {<<"M", "L", " ", "x">>, <<>>}

BedrockOutcomes == {Null, Some(<<1, 0>>), Some(<<0, 1, 0>>)}

InitRanker ==
    /\ vectorFile \in RankerFiles
    /\ localVectorIndex = Null
    /\ embeddingCache = NoCache
    /\ searchQuery = <<>>
    /\ searchK = 0
    /\ queryEmbedding = Null
    /\ ranked = <<>>
    /\ searchPc = "idle"
    /\ embedCall = "none"
    /\ ChunkerIdle /\ MemoryIdle /\ CosineIdle /\ NormalizerIdle /\ PipelineIdle /\ ServerIdle /\ AnalyzerIdle /\ KeywordIdle /\ SourcesIdle /\ AgentNotBuilt /\ NoChats

NextRanker ==
    \E query \in SearchQueries, k \in 0..MaxK, bedrock \in BedrockOutcomes :
        semanticLocalSearch(query, k, bedrock)

SpecRanker == InitRanker /\ [][NextRanker]_vars

(***************************************************************************)
(* Ranker: claims                                                          *)
(***************************************************************************)
Loaded == ValueOf(localVectorIndex)

RankedIds == [i \in 1..Len(ranked) |-> ranked[i].id]

Returned(r) == \E i \in 1..Len(ranked) : ranked[i].id = r.id

\* position of the record with this id in the loaded index
PositionOf(id) == CHOOSE j \in 1..Len(Loaded.vectors) : Loaded.vectors[j].id = id

\* the score the search gave, or would give, to a record of the index
SearchScore(r) == SimilarityOf(r, searchQuery, queryEmbedding, Loaded)

\* C6: the returned records are in non-increasing order of score, every
\* returned record scores at least as high as every record of the index
\* that was not returned, and for the index [a:[1,0], b:[0,1]] with query
\* embedding [1,0] the top-1 result is a (similarity 1).
C6_RankedDescending ==
    searchPc = "done" =>
        /\ \A i, j \in 1..Len(ranked) :
               i < j => ScoreCmp(ranked[i].similarity, ranked[j].similarity) >= 0
        /\ \A n \in 1..Len(Loaded.vectors) : \A i \in 1..Len(ranked) :
               ~Returned(Loaded.vectors[n]) =>
                   ScoreCmp(ranked[i].similarity, SearchScore(Loaded.vectors[n])) >= 0
        /\ ( /\ [n \in 1..Len(Loaded.vectors) |-> Loaded.vectors[n].id] = <<"a", "b">>
             /\ queryEmbedding = Some(<<1, 0>>)
             /\ searchK = 1 )
           => ( /\ RankedIds = <<"a">>
                /\ WithinToleranceOfOne(ranked[1].similarity) )

\* a better-scored record stored behind a worse one comes out first, and a
\* third record is cut off by k
C6_Witness ==
    /\ searchPc = "done"
    /\ [n \in 1..Len(Loaded.vectors) |-> Loaded.vectors[n].id] = <<"b", "c", "a">>
    /\ queryEmbedding = Some(<<1, 0>>)
    /\ RankedIds = <<"a", "b">>

\* C7: a search for n results over an index of k records returns exactly
\* min(n, k) records, each a distinct record of the index.
C7_ResultCount ==
    searchPc = "done" =>
        /\ Len(ranked) = Min(searchK, Len(Loaded.vectors))
        /\ \A i, j \in 1..Len(ranked) : ranked[i].id = ranked[j].id => i = j
        /\ \A i \in 1..Len(ranked) :
               \E n \in 1..Len(Loaded.vectors) :
                   /\ Loaded.vectors[n].id = ranked[i].id
                   /\ Loaded.vectors[n].vector = ranked[i].vector
                   /\ Loaded.vectors[n].content = ranked[i].content

\* more results requested than the index holds: all of them come back
C7_Witness ==
    /\ searchPc = "done"
    /\ Len(Loaded.vectors) >= 1
    /\ searchK > Len(Loaded.vectors)
    /\ Len(ranked) = Len(Loaded.vectors)

\* C8: two returned records with identical scores appear in the relative
\* order they have in the loaded index.
C8_StableRanking ==
    searchPc = "done" =>
        \A i, j \in 1..Len(ranked) :
            (i < j /\ ScoreCmp(ranked[i].similarity, ranked[j].similarity) = 0)
                => PositionOf(ranked[i].id) < PositionOf(ranked[j].id)

\* f and a tie under cosine scoring and f is stored first
C8_Witness ==
    /\ searchPc = "done"
    /\ UsesCosine(queryEmbedding, Loaded)
    /\ RankedIds = <<"f", "a">>
    /\ ScoreCmp(ranked[1].similarity, ranked[2].similarity) = 0

ZeroVectorRecord(r) == IsZeroVector(ValueOf(r.vector))

\* C9 (as claimed): in a cosine-scored search a record whose vector is all
\* zeros has similarity -1 and is never ranked ahead of a record with a
\* non-zero vector.
C9_ZeroVectorLast ==
    (searchPc = "done" /\ UsesCosine(queryEmbedding, Loaded)) =>
        /\ \A i \in 1..Len(ranked) :
               ZeroVectorRecord(ranked[i]) => IsMinusOne(ranked[i].similarity)
        /\ \A i, j \in 1..Len(ranked) :
               (i < j /\ ZeroVectorRecord(ranked[i])) => ZeroVectorRecord(ranked[j])
        /\ \A n \in 1..Len(Loaded.vectors) : \A i \in 1..Len(ranked) :
               (~Returned(Loaded.vectors[n]) /\ ZeroVectorRecord(ranked[i]))
                   => ZeroVectorRecord(Loaded.vectors[n])

(***************************************************************************)
(* Scoring mode of a search                                                *)
(***************************************************************************)
\* an embedding of the last search's query is at hand: it was cached by an
\* earlier search or returned by this search's call
EmbeddingObtained == searchQuery \in DOMAIN embeddingCache

CosineMode ==
    EmbeddingObtained /\ Len(embeddingCache[searchQuery]) = Loaded.dim

\* C11: a search scores with cosine only when an embedding of the query was
\* obtained and its length equals the index dimension; when the embedding
\* call failed or was skipped, or the embedding has another length, every
\* returned record carries its keyword score; the scores of one search are
\* all of one kind, and cosine is never taken against a vector of another
\* length.
C11_ScoringMode ==
    searchPc = "done" =>
        /\ embedCall = "failed" => ~EmbeddingObtained
        /\ EmbeddingObtained <=> queryEmbedding # Null
        /\ CosineMode =>
               /\ \A n \in 1..Len(Loaded.vectors) :
                      Len(ValueOf(Loaded.vectors[n].vector)) = Len(embeddingCache[searchQuery])
               /\ \A i \in 1..Len(ranked) :
                      ranked[i].similarity =
                          cosineSimilarity(Some(embeddingCache[searchQuery]), ranked[i].vector)
        /\ ~CosineMode =>
               \A i \in 1..Len(ranked) :
                   ranked[i].similarity =
                       keywordScore(ToLower(searchQuery), ranked[i].content)

\* the call returned an embedding of another length than the index has, and
\* the two returned records carry different keyword scores
C11_Witness ==
    /\ searchPc = "done"
    /\ embedCall = "returned"
    /\ Len(ValueOf(queryEmbedding)) # Loaded.dim
    /\ Len(ranked) = 2
    /\ ranked[1].similarity = keywordScore(ToLower(searchQuery), ranked[1].content)
    /\ ScoreCmp(ranked[1].similarity, ranked[2].similarity) > 0
    /\ ranked[2].similarity.d > 0

(***************************************************************************)
(* RAGChatAgent.processQuery                                               *)
(***************************************************************************)
LowerLetters ==
    {"a", "b", "c", "d", "e", "f", "g", "h", "i", "j", "k", "l", "m",
     "n", "o", "p", "q", "r", "s", "t", "u", "v", "w", "x", "y", "z"}

Digits == {"0", "1", "2", "3", "4", "5", "6", "7", "8", "9"}

\* the class [a-z0-9+]
TokenChars == LowerLetters \cup Digits \cup {"+"}

\* cleanQuery.split(/[^a-z0-9+]+/).filter(Boolean)
TokensOf(cleanQuery) ==
    LET seps == {cleanQuery[i] : i \in 1..Len(cleanQuery)} \ TokenChars
    IN  SelectSeq(SplitRuns(cleanQuery, seps), NonEmpty)

\* abbreviationMap[t] ? abbreviationMap[t].split(' ') : [t]
ExpandToken(t) ==
    IF t = <<"m", "l">> THEN <<<<"m", "a", "c", "h", "i", "n", "e">>, <<"l", "e", "a", "r", "n", "i", "n", "g">>>>
    ELSE IF t = <<"a", "i">> THEN <<<<"a", "r", "t", "i", "f", "i", "c", "i", "a", "l">>, <<"i", "n", "t", "e", "l", "l", "i", "g", "e", "n", "c", "e">>>>
    ELSE IF t = <<"l", "l", "m">> THEN <<<<"l", "a", "r", "g", "e">>, <<"l", "a", "n", "g", "u", "a", "g", "e">>, <<"m", "o", "d", "e", "l">>>>
    ELSE IF t = <<"r", "a", "g">> THEN <<<<"r", "e", "t", "r", "i", "e", "v", "a", "l">>, <<"a", "u", "g", "m", "e", "n", "t", "e", "d">>, <<"g", "e", "n", "e", "r", "a", "t", "i", "o", "n">>>>
    ELSE <<t>>

RECURSIVE ExpandedTokens(_)
\* tokens.flatMap(...)
ExpandedTokens(tokens) ==
    IF tokens = <<>> THEN <<>>
    ELSE ExpandToken(Head(tokens)) \o ExpandedTokens(Tail(tokens))

Stopwords ==
    {<<"t", "h", "e">>, <<"a">>, <<"a", "n">>, <<"a", "n", "d">>,
     <<"o", "r">>, <<"i", "n">>, <<"o", "n">>, <<"f", "o", "r">>,
     <<"t", "o">>, <<"i", "s">>, <<"a", "r", "e">>,
     <<"w", "h", "a", "t">>, <<"h", "o", "w">>, <<"o", "f">>,
     <<"e", "x", "p", "l", "a", "i", "n">>, <<"t", "e", "l", "l">>,
     <<"m", "e">>, <<"a", "b", "o", "u", "t">>, <<"w", "i", "t", "h">>}

TechLexicon ==
    {<<"p", "y", "t", "h", "o", "n">>,
     <<"j", "a", "v", "a", "s", "c", "r", "i", "p", "t">>,
     <<"n", "o", "d", "e">>, <<"a", "w", "s">>,
     <<"b", "e", "d", "r", "o", "c", "k">>,
     <<"l", "a", "m", "b", "d", "a">>, <<"v", "e", "c", "t", "o", "r">>,
     <<"e", "m", "b", "e", "d", "d", "i", "n", "g">>,
     <<"c", "h", "r", "o", "m", "a">>,
     <<"s", "e", "m", "a", "n", "t", "i", "c">>,
     <<"s", "i", "m", "i", "l", "a", "r", "i", "t", "y">>,
     <<"m", "a", "c", "h", "i", "n", "e">>,
     <<"l", "e", "a", "r", "n", "i", "n", "g">>,
     <<"m", "o", "d", "e", "l">>, <<"d", "a", "t", "a", "s", "e", "t">>}

IsKeyTerm(t) == t \notin Stopwords /\ Len(t) > 2

\* expandedTokens.filter(t => !stopwords.has(t) && t.length > 2)
KeyTermsOf(expandedTokens) == SelectSeq(expandedTokens, IsKeyTerm)

InLexicon(t) == t \in TechLexicon

RECURSIVE Unique(_)
\* [...new Set(seq)] : the first occurrence of every element, in order
Unique(seq) ==
    IF seq = <<>> THEN <<>>
    ELSE LET init == Unique(SubSeq(seq, 1, Len(seq) - 1))
             last == seq[Len(seq)]
         IN  IF \E i \in 1..Len(init) : init[i] = last THEN init ELSE Append(init, last)

\* [...new Set(keyTerms.filter(t => techLexicon.includes(t)))]
EntitiesOf(keyTerms) == Unique(SelectSeq(keyTerms, InLexicon))

HistoryContextAllTurns(id) ==
    IF id \in DOMAIN conversationHistory
    THEN LET hist == conversationHistory[id]
         IN  Join([i \in 1..Len(hist) |-> hist[i].query], <<" ", "|", " ">>)
    ELSE <<>>

\* hist.slice(-3).map(h => h.query).join(' | '), '' without history
HistoryContext(id) ==
    IF id \in DOMAIN conversationHistory
    THEN LET hist == conversationHistory[id]
             from == IF Len(hist) > 3 THEN Len(hist) - 3 ELSE 0
             recent == Slice(hist, from, Len(hist))
         IN  Join([i \in 1..Len(recent) |-> recent[i].query], <<" ", "|", " ">>)
    ELSE <<>>

ProcessedOfUpToThree(raw, historyContext) ==
    LET cleanQuery == ToLower(Trim(raw))
        keyTerms == KeyTermsOf(ExpandedTokens(TokensOf(cleanQuery)))
        processed == keyTerms \o EntitiesOf(keyTerms)
        joined == Trim(Join(processed, <<" ">>))
        withHint ==
            IF Len(SplitChar(joined, {" "})) <= 3 /\ Len(historyContext) > 0
            THEN joined \o <<" ">> \o historyContext
            ELSE joined
    IN  IF Len(withHint) > 0 THEN withHint
        ELSE IF Len(cleanQuery) > 0 THEN cleanQuery
        ELSE raw

\* the value assigned to state.processedQuery
ProcessedOf(raw, historyContext) ==
    LET cleanQuery == ToLower(Trim(raw))
        keyTerms == KeyTermsOf(ExpandedTokens(TokensOf(cleanQuery)))
        processed == keyTerms \o EntitiesOf(keyTerms)
        joined == Trim(Join(processed, <<" ">>))
        withHint ==
            IF Len(SplitChar(joined, {" "})) < 3 /\ Len(historyContext) > 0
            THEN joined \o <<" ">> \o historyContext
            ELSE joined
    IN  IF Len(withHint) > 0 THEN withHint
        ELSE IF Len(cleanQuery) > 0 THEN cleanQuery
        ELSE raw

processQuery ==
    /\ normPc = "call"
    /\ LET keyTerms == KeyTermsOf(ExpandedTokens(TokensOf(ToLower(Trim(currentQuery)))))
       IN  /\ processedQuery' = ProcessedOf(currentQuery, HistoryContext(conversationId))
           /\ queryTermCount' = Len(keyTerms)
           /\ entityCount' = Len(EntitiesOf(keyTerms))
    /\ normPc' = "done"
    /\ UNCHANGED <<currentQuery, conversationId, resubmits>>
    /\ UNCHANGED <<chunkerVars, memoryVars, searchVars, cosineVars, pipelineVars, serverVars, analyzerVars, keywordVars, sourcesVars, agentInitVars, inflightVars>>

\* a new request whose query is the processedQuery of the last one
SubmitProcessedQuery ==
    /\ normPc = "done"
    /\ resubmits < MaxResubmits
    /\ currentQuery' = processedQuery
    /\ resubmits' = resubmits + 1
    /\ normPc' = "call"
    /\ UNCHANGED <<processedQuery, queryTermCount, entityCount, conversationId>>
    /\ UNCHANGED <<chunkerVars, memoryVars, searchVars, cosineVars, pipelineVars, serverVars, analyzerVars, keywordVars, sourcesVars, agentInitVars, inflightVars>>

(***************************************************************************)
(* Normalizer specification: a query and a conversation are drawn in Init, *)
(* the query is processed, and its result may be submitted again.          *)
(***************************************************************************)
WordPool == {<<"M", "L">>, <<"p", "y", "t", "h", "o", "n">>, <<"t", "h", "e">>, <<"d", "a", "t", "a">>, <<"g", "o">>}

RECURSIVE WordLists(_)
WordLists(n) ==
    IF n = 0 THEN {<<>>}
    ELSE LET shorter == WordLists(n - 1)
         IN  shorter \cup {Append(l, w) : l \in shorter, w \in WordPool}

RawQueries ==
    {lead \o Join(l, <<" ">>) \o trail :
        lead \in {<<>>, <<" ">>}, l \in WordLists(MaxQueryWords), trail \in {<<>>, <<"?">>}}

Turn(n, query, response) == [turn |-> n, query |-> query, response |-> response]

\* the conversation is new, or holds one earlier turn, or four; the two
\* four-turn conversations differ in their oldest turn and in a response
NormalizerHistories ==
    {NoHistory,
     "c1" :> <<Turn(1, <<"p", "y", "t", "h", "o", "n">>, <<"d", "a", "t", "a">>)>>,
     "c1" :> <<Turn(1, <<"d", "a", "t", "a">>, <<"d", "a", "t", "a">>),
               Turn(2, <<"g", "o">>, <<"g", "o">>),
               Turn(3, <<"M", "L">>, <<"g", "o">>),
               Turn(4, <<"g", "o">>, <<"g", "o">>)>>,
     "c1" :> <<Turn(1, <<"t", "h", "e">>, <<"d", "a", "t", "a">>),
               Turn(2, <<"g", "o">>, <<"g", "o">>),
               Turn(3, <<"M", "L">>, <<"d", "a", "t", "a">>),
               Turn(4, <<"g", "o">>, <<"g", "o">>)>>}

\* the embedding cache is empty, or holds the embedding of an earlier query
NormalizerCaches == {NoCache, <<"p", "y", "t", "h", "o", "n">> :> <<1, 0>>}

InitNormalizer ==
    /\ currentQuery \in RawQueries
    /\ conversationId = "c1"
    /\ processedQuery = <<>>
    /\ queryTermCount = 0
    /\ entityCount = 0
    /\ normPc = "call"
    /\ resubmits = 0
    /\ conversationHistory \in NormalizerHistories
    /\ embeddingCache \in NormalizerCaches
    /\ ChunkerIdle /\ SearchAtRest /\ CosineIdle /\ PipelineIdle /\ ServerIdle /\ AnalyzerIdle /\ KeywordIdle /\ SourcesIdle /\ AgentNotBuilt /\ NoChats

NextNormalizer == processQuery \/ SubmitProcessedQuery

SpecNormalizer == InitNormalizer /\ [][NextNormalizer]_vars

\* C12 (as claimed): with no history for the conversation, processing the
\* processedQuery of an earlier processQuery call yields that same string.
C12_NormalizationIdempotent ==
    (normPc = "done" /\ resubmits >= 1 /\ conversationId \notin DOMAIN conversationHistory)
        => processedQuery = currentQuery

\* the queries of the (at most three) most recent turns of the conversation
LastThreeQueries ==
    IF conversationId \in DOMAIN conversationHistory
    THEN LET hist == conversationHistory[conversationId]
             first == IF Len(hist) > 3 THEN Len(hist) - 2 ELSE 1
         IN  [i \in 1..(Len(hist) - first + 1) |-> hist[first + i - 1].query]
    ELSE <<>>

ProcessQueryStep == normPc = "call" /\ normPc' = "done"

\* C22: processQuery leaves every entry of conversationHistory and of
\* embeddingCache as it was, and the processedQuery it produces is
\* determined by the query and the queries of the conversation's last three
\* turns alone (older turns, responses and the cache play no part).
C22_Step ==
    ProcessQueryStep =>
        /\ conversationHistory' = conversationHistory
        /\ embeddingCache' = embeddingCache
        /\ processedQuery' =
               ProcessedOf(currentQuery, Join(LastThreeQueries, <<" ", "|", " ">>))

C22_NoSideEffects == [][C22_Step]_vars

\* a query was processed in a conversation of more than three turns while
\* the embedding cache held an entry, and the history hint was appended
C22_Witness ==
    /\ normPc = "done"
    /\ embeddingCache # NoCache
    /\ conversationId \in DOMAIN conversationHistory
    /\ Len(conversationHistory[conversationId]) > 3
    /\ queryTermCount + entityCount < 3

\* the processed terms joined, before any history is appended
NormalizedForm ==
    LET keyTerms == KeyTermsOf(ExpandedTokens(TokensOf(ToLower(Trim(currentQuery)))))
    IN  Join(keyTerms \o EntitiesOf(keyTerms), <<" ">>)

HasStoredTurn ==
    /\ conversationId \in DOMAIN conversationHistory
    /\ Len(conversationHistory[conversationId]) >= 1

\* C23: processQuery appends the queries of the conversation's most recent
\* (at most three) turns exactly when the normalized form has fewer than 3
\* tokens and the conversation has a stored turn; otherwise the processed
\* query is the normalized form (or the cleaned or raw query when that is
\* empty) with nothing appended.
C23_HistoryHint ==
    normPc = "done" =>
        IF queryTermCount + entityCount < 3 /\ HasStoredTurn
        THEN processedQuery =
                 NormalizedForm \o <<" ">> \o Join(LastThreeQueries, <<" ", "|", " ">>)
        ELSE processedQuery =
                 IF Len(NormalizedForm) > 0 THEN NormalizedForm
                 ELSE IF Len(Trim(currentQuery)) > 0 THEN ToLower(Trim(currentQuery))
                 ELSE currentQuery

\* a three-token form met a stored conversation and nothing was appended
C23_Witness ==
    /\ normPc = "done"
    /\ HasStoredTurn
    /\ queryTermCount + entityCount = 3
    /\ processedQuery = NormalizedForm

(***************************************************************************)
(* RAGChatAgent.ensureLocalVectorIndex called on its own                   *)
(***************************************************************************)
CallEnsureLocalVectorIndex ==
    /\ searchPc \in {"idle", "loaded"}
    /\ IF IndexThrows
       THEN /\ searchPc' = "threw"
            /\ UNCHANGED localVectorIndex
       ELSE /\ localVectorIndex' = Some(ensureLocalVectorIndex)
            /\ searchPc' = "loaded"
    /\ UNCHANGED <<vectorFile, embeddingCache, searchQuery, searchK, queryEmbedding,
                   ranked, embedCall>>
    /\ UNCHANGED <<chunkerVars, memoryVars, cosineVars, normalizerVars, pipelineVars, serverVars, analyzerVars, keywordVars, sourcesVars, agentInitVars, inflightVars>>

\* records of the explored files: two of length 2, one of length 3, one
\* without a vector field, one whose vector is the empty array
LoaderPool ==
    { Rec("a", Some(<<1, 0>>), <<"a">>),
      Rec("b", Some(<<0, 1>>), <<"b">>),
      Rec("g", Some(<<0, 1, 0>>), <<"g">>),
      Rec("h", Null, <<"h">>),
      Rec("z", Some(<<>>), <<"z">>) }

RECURSIVE LoaderLists(_)
LoaderLists(n) ==
    IF n = 0 THEN {<<>>}
    ELSE LET shorter == LoaderLists(n - 1)
         IN  shorter \cup {Append(l, r) : l \in shorter, r \in LoaderPool}

\* no file, or a file of either shape holding records with distinct ids
LoaderFiles ==
    {Null} \cup
    {Some([shape |-> sh, records |-> l]) :
        sh \in {"array", "embeddings"},
        l \in {x \in LoaderLists(MaxRecords) : DistinctIds(x)}}

InitLoader ==
    /\ vectorFile \in LoaderFiles
    /\ localVectorIndex = Null
    /\ embeddingCache = NoCache
    /\ searchQuery = <<>>
    /\ searchK = 0
    /\ queryEmbedding = Null
    /\ ranked = <<>>
    /\ searchPc = "idle"
    /\ embedCall = "none"
    /\ ChunkerIdle /\ MemoryIdle /\ CosineIdle /\ NormalizerIdle /\ PipelineIdle /\ ServerIdle /\ AnalyzerIdle /\ KeywordIdle /\ SourcesIdle /\ AgentNotBuilt /\ NoChats

NextLoader == CallEnsureLocalVectorIndex

SpecLoader == InitLoader /\ [][NextLoader]_vars

(***************************************************************************)
(* Index loading: claims                                                   *)
(***************************************************************************)
FileRecords == ValueOf(vectorFile).records

InIndex(id) == \E n \in 1..Len(Loaded.vectors) : Loaded.vectors[n].id = id

\* C13: after ensureLocalVectorIndex has succeeded, every record of the
\* index has an array vector of length dim, and no record of the file whose
\* vector has another length is in the index.
C13_UniformDimension ==
    searchPc = "loaded" =>
        /\ \A n \in 1..Len(Loaded.vectors) :
               /\ Loaded.vectors[n].vector # Null
               /\ Len(ValueOf(Loaded.vectors[n].vector)) = Loaded.dim
        /\ \A i \in 1..Len(FileRecords) :
               ( /\ FileRecords[i].vector # Null
                 /\ Len(ValueOf(FileRecords[i].vector)) # Loaded.dim )
                   => ~InIndex(FileRecords[i].id)

\* a file with records of two lengths was loaded, and the index keeps two
C13_Witness ==
    /\ searchPc = "loaded"
    /\ Loaded.dim = 2
    /\ Len(Loaded.vectors) = 2
    /\ \E i \in 1..Len(FileRecords) :
           FileRecords[i].vector # Null /\ Len(ValueOf(FileRecords[i].vector)) = 3

\* a record with an array vector of at least one component
WellFormedRecord(r) == r.vector # Null /\ Len(ValueOf(r.vector)) > 0

FirstWellFormed ==
    FileRecords[CHOOSE i \in 1..Len(FileRecords) :
                    /\ WellFormedRecord(FileRecords[i])
                    /\ \A j \in 1..(i - 1) : ~WellFormedRecord(FileRecords[j])]

\* C14 (as claimed): for a file with at least one well-formed record the
\* load succeeds, dim is the vector length of the first well-formed record
\* in file order, whatever malformed records precede it, and every
\* well-formed record of that length is kept.
C14_DimOfFirstValid ==
    ( /\ searchPc \in {"loaded", "threw"}
      /\ vectorFile # Null
      /\ \E i \in 1..Len(FileRecords) : WellFormedRecord(FileRecords[i]) )
    => /\ searchPc = "loaded"
       /\ Loaded.dim = Len(ValueOf(FirstWellFormed.vector))
       /\ \A i \in 1..Len(FileRecords) :
              ( /\ WellFormedRecord(FileRecords[i])
                /\ Len(ValueOf(FileRecords[i].vector)) = Loaded.dim )
                  => InIndex(FileRecords[i].id)

(***************************************************************************)
(* EmbeddingsPipeline: the five nodes of the graph                         *)
(* START -> loadData -> processContent -> generateEmbeddings ->            *)
(* storeVectors -> generateReport -> END                                   *)
(***************************************************************************)
\* workflow.addEdge(from, to)
NextNode(node) ==
    IF node = "loadData" THEN "processContent"
    ELSE IF node = "processContent" THEN "generateEmbeddings"
    ELSE IF node = "generateEmbeddings" THEN "storeVectors"
    ELSE IF node = "storeVectors" THEN "generateReport"
    ELSE "done"

Err(stage, message) == [stage |-> stage, error |-> message]

\* the node returns the state: the graph moves on to the next node
Returns(node) ==
    /\ pipePc' = NextNode(node)
    /\ stagesRun' = Append(stagesRun, node)

loadData ==
    /\ pipePc = "loadData"
    /\ IF dataFile = Null
       THEN /\ errors' = Append(errors, Err("loadData", "Data Science output not found"))
            /\ UNCHANGED inputData
       ELSE /\ inputData' = dataFile
            /\ UNCHANGED errors
    /\ Returns("loadData")
    /\ UNCHANGED <<dataFile, processedContent, embeddings, storedVectors, metrics, report,
                   chromaCollection, collectionFile, markerFile, reportFile>>
    /\ UNCHANGED <<chunkerVars, memoryVars, searchVars, cosineVars, normalizerVars, serverVars, analyzerVars, keywordVars, sourcesVars, agentInitVars, inflightVars>>

\* the processedChunk objects of one article; ids number the chunks of the
\* run (uuidv4 gives every chunk an id of its own)
ChunksOfArticle(article, firstId) ==
    LET parts == createSimpleChunks(ValueOf(article.content), 500)
    IN  [index \in 1..Len(parts) |->
            [id |-> firstId + index - 1,
             content |-> parts[index],
             metadata |-> [title |-> article.title,
                           chunkIndex |-> index - 1,
                           totalChunks |-> Len(parts)]]]

RECURSIVE ArticleLoop(_, _, _, _)
\* for (const article of state.inputData.contentData) { ... } : an article
\* without content makes createSimpleChunks throw, which ends the loop
ArticleLoop(articles, i, acc, processed) ==
    IF i > Len(articles)
    THEN [processedContent |-> acc, processed |-> processed, threw |-> FALSE]
    ELSE IF articles[i].content = Null
         THEN [processedContent |-> acc, processed |-> processed, threw |-> TRUE]
         ELSE ArticleLoop(articles, i + 1,
                          acc \o ChunksOfArticle(articles[i], Len(acc) + 1),
                          processed + 1)

processContent ==
    /\ pipePc = "processContent"
    /\ IF inputData = Null \/ ValueOf(inputData).contentData = Null
       THEN /\ errors' = Append(errors, Err("processContent", "No content data available"))
            /\ UNCHANGED <<processedContent, metrics>>
       ELSE LET loop == ArticleLoop(ValueOf(ValueOf(inputData).contentData), 1,
                                    processedContent, metrics.processed)
            IN  /\ processedContent' = loop.processedContent
                /\ metrics' = [metrics EXCEPT !.processed = loop.processed,
                                              !.failed = IF loop.threw THEN @ + 1 ELSE @]
                /\ errors' = IF loop.threw
                             THEN Append(errors, Err("processContent", "TypeError"))
                             ELSE errors
    /\ Returns("processContent")
    /\ UNCHANGED <<dataFile, inputData, embeddings, storedVectors, report,
                   chromaCollection, collectionFile, markerFile, reportFile>>
    /\ UNCHANGED <<chunkerVars, memoryVars, searchVars, cosineVars, normalizerVars, serverVars, analyzerVars, keywordVars, sourcesVars, agentInitVars, inflightVars>>

\* callBedrockEmbeddings : the call returns the embedding of the response
\* ("embedding"), throws and is answered by the mock ("threw"), or returns a
\* response without an embedding field, that is undefined ("noEmbedding")
callBedrockEmbeddings(outcome) ==
    IF outcome = "embedding" THEN Some("titan")
    ELSE IF outcome = "threw" THEN Some("mock")
    ELSE Null

RECURSIVE EmbedLoop(_, _, _, _, _, _)
\* for (const chunk of state.processedContent) { ... }
EmbedLoop(chunkList, outcomes, i, acc, embedded, failed) ==
    IF i > Len(chunkList)
    THEN [embeddings |-> acc, embedded |-> embedded, failed |-> failed]
    ELSE LET chunk == chunkList[i]
             embedding == callBedrockEmbeddings(outcomes[i])
         IN  IF embedding # Null
             THEN EmbedLoop(chunkList, outcomes, i + 1,
                            Append(acc, [id |-> chunk.id,
                                         vector |-> ValueOf(embedding),
                                         content |-> chunk.content,
                                         metadata |-> chunk.metadata]),
                            embedded + 1, failed)
             ELSE EmbedLoop(chunkList, outcomes, i + 1, acc, embedded, failed + 1)

generateEmbeddings(outcomes) ==
    /\ pipePc = "generateEmbeddings"
    /\ IF Len(processedContent) = 0
       THEN /\ errors' = Append(errors, Err("generateEmbeddings", "No processed content available"))
            /\ UNCHANGED <<embeddings, metrics>>
       ELSE LET loop == EmbedLoop(processedContent, outcomes, 1, embeddings,
                                  metrics.embedded, metrics.failed)
            IN  /\ embeddings' = loop.embeddings
                /\ metrics' = [metrics EXCEPT !.embedded = loop.embedded,
                                              !.failed = loop.failed]
                /\ UNCHANGED errors
    /\ Returns("generateEmbeddings")
    /\ UNCHANGED <<dataFile, inputData, processedContent, storedVectors, report,
                   chromaCollection, collectionFile, markerFile, reportFile>>
    /\ UNCHANGED <<chunkerVars, memoryVars, searchVars, cosineVars, normalizerVars, serverVars, analyzerVars, keywordVars, sourcesVars, agentInitVars, inflightVars>>

\* const batchSize = 10
BatchSize == 10

\* number of batches the loop over state.embeddings makes
BatchCount(n) == (n + BatchSize - 1) \div BatchSize

\* the elements of the first b batches
FirstBatches(list, b) == Slice(list, 0, b * BatchSize)

\* FileRecord : embeddings.map(item => ({ id, vector, document, metadata }))
FileRecordsOf(list) ==
    [i \in 1..Len(list) |->
        [id |-> list[i].id, vector |-> list[i].vector,
         document |-> list[i].content, metadata |-> list[i].metadata]]

\* the file-storage branch: storedVectors.push(...state.embeddings);
\* metrics.stored = state.embeddings.length   (added = storedVectors after
\* the batches the collection took)
StoreFallback(added) ==
    [storedVectors |-> added \o embeddings,
     stored |-> Len(embeddings)]

\* chromaFailsAt: 0 when getOrCreateCollection throws, b when collection.add
\* throws for batch b, BatchCount + 1 when nothing throws;
\* disk: "ok", or the call that throws, "mkdir" or "write"
storeVectors(chromaFailsAt, disk) ==
    /\ pipePc = "storeVectors"
    /\ IF Len(embeddings) = 0
       THEN /\ errors' = Append(errors, Err("storeVectors", "No embeddings to store"))
            /\ UNCHANGED <<storedVectors, metrics, chromaCollection, collectionFile>>
       ELSE IF disk = "mkdir"
       THEN /\ errors' = Append(errors, Err("storeVectors", "mkdirSync failed"))
            /\ UNCHANGED <<storedVectors, metrics, chromaCollection, collectionFile>>
       ELSE LET batches == BatchCount(Len(embeddings))
                taken == IF chromaFailsAt > batches THEN batches
                         ELSE IF chromaFailsAt = 0 THEN 0 ELSE chromaFailsAt - 1
                added == storedVectors \o FirstBatches(embeddings, taken)
                useFileStorage == chromaFailsAt <= batches
            IN  /\ chromaCollection' = chromaCollection \o FirstBatches(embeddings, taken)
                /\ IF ~useFileStorage
                   THEN /\ storedVectors' = added
                        /\ metrics' = [metrics EXCEPT !.stored = @ + Len(embeddings)]
                        /\ UNCHANGED <<errors, collectionFile>>
                   ELSE IF disk = "write"
                   THEN /\ storedVectors' = added
                        /\ metrics' = [metrics EXCEPT
                                          !.stored = @ + Len(FirstBatches(embeddings, taken))]
                        /\ errors' = Append(errors, Err("storeVectors", "writeFileSync failed"))
                        /\ UNCHANGED collectionFile
                   ELSE /\ collectionFile' = Some(FileRecordsOf(embeddings))
                        /\ storedVectors' = StoreFallback(added).storedVectors
                        /\ metrics' = [metrics EXCEPT !.stored = StoreFallback(added).stored]
                        /\ UNCHANGED errors
    /\ Returns("storeVectors")
    /\ UNCHANGED <<dataFile, inputData, processedContent, embeddings, report,
                   markerFile, reportFile>>
    /\ UNCHANGED <<chunkerVars, memoryVars, searchVars, cosineVars, normalizerVars, serverVars, analyzerVars, keywordVars, sourcesVars, agentInitVars, inflightVars>>

ReportOf ==
    [status |-> IF Len(errors) = 0 THEN "SUCCESS" ELSE "PARTIAL_SUCCESS",
     metrics |-> metrics,
     processedChunks |-> Len(processedContent),
     successfulEmbeddings |-> Len(embeddings),
     storedVectors |-> Len(storedVectors),
     ready |-> Len(storedVectors) > 0,
     errors |-> errors]

\* the object written to vector-db-config.json
MarkerOf == [vectorCount |-> Len(storedVectors), ready |-> TRUE]

\* write: "ok", or the writeFileSync that throws, "config" or "report";
\* generateReport has no try/catch, so a throw rejects the run
generateReport(write) ==
    /\ pipePc = "generateReport"
    /\ stagesRun' = Append(stagesRun, "generateReport")
    /\ IF write = "config"
       THEN /\ pipePc' = "aborted"
            /\ UNCHANGED <<markerFile, reportFile, report>>
       ELSE IF write = "report"
       THEN /\ markerFile' = Some(MarkerOf)
            /\ pipePc' = "aborted"
            /\ UNCHANGED <<reportFile, report>>
       ELSE /\ markerFile' = Some(MarkerOf)
            /\ reportFile' = Some(ReportOf)
            /\ report' = Some(ReportOf)
            /\ pipePc' = "done"
    /\ UNCHANGED <<dataFile, inputData, processedContent, embeddings, storedVectors,
                   errors, metrics, chromaCollection, collectionFile>>
    /\ UNCHANGED <<chunkerVars, memoryVars, searchVars, cosineVars, normalizerVars, serverVars, analyzerVars, keywordVars, sourcesVars, agentInitVars, inflightVars>>

(***************************************************************************)
(* Pipeline specification: one run over a data file drawn in Init          *)
(***************************************************************************)
Article(i, ok) ==
    [title |-> i, content |-> IF ok THEN Some(<<"a", ".", " ", "b">>) ELSE Null]

\* n articles, all with content, or all but the one at position bad
Articles(n, bad) == [i \in 1..n |-> Article(i, i # bad)]

\* no file; a file without contentData; a file with a list of articles
DataFiles ==
    {Null, Some([contentData |-> Null])} \cup
    {Some([contentData |-> Some(Articles(n, bad))]) : n \in 0..MaxArticles, bad \in 0..3}

\* the outcomes of the embedding calls of a run: the service answers every
\* call alike, or all but one call return an embedding
BedrockBehaviours(n) ==
    {[i \in 1..n |-> o] : o \in {"embedding", "threw", "noEmbedding"}} \cup
    {[i \in 1..n |-> IF i = j THEN o ELSE "embedding"] :
        j \in 1..n, o \in {"threw", "noEmbedding"}}

InitPipeline ==
    /\ dataFile \in DataFiles
    /\ FreshPipelineState
    /\ chromaCollection = <<>>
    /\ collectionFile = Null
    /\ markerFile = Null
    /\ reportFile = Null
    /\ stagesRun = <<>>
    /\ pipePc = "loadData"
    /\ ChunkerIdle /\ MemoryIdle /\ SearchIdle /\ CosineIdle /\ NormalizerIdle /\ ServerIdle /\ AnalyzerIdle /\ KeywordIdle /\ SourcesIdle /\ AgentNotBuilt /\ NoChats

NextPipeline ==
    \/ loadData
    \/ processContent
    \/ \E outcomes \in BedrockBehaviours(Len(processedContent)) : generateEmbeddings(outcomes)
    \/ \E chromaFailsAt \in 0..(BatchCount(Len(embeddings)) + 1),
          disk \in {"ok", "mkdir", "write"} : storeVectors(chromaFailsAt, disk)
    \/ \E write \in {"ok", "config", "report"} : generateReport(write)

SpecPipeline == InitPipeline /\ [][NextPipeline]_vars

(***************************************************************************)
(* Pipeline: claims                                                        *)
(***************************************************************************)
StageOrder ==
    <<"loadData", "processContent", "generateEmbeddings", "storeVectors", "generateReport">>

Ran(stage) == \E i \in 1..Len(stagesRun) : stagesRun[i] = stage

HasError(stage) == \E i \in 1..Len(errors) : errors[i].stage = stage

\* C15 (as claimed): the nodes of a run execute once each in the order
\* loadData, processContent, generateEmbeddings, storeVectors,
\* generateReport with no step back; no node ends the run before END, so
\* every run reaches the end with a report produced, also when earlier
\* nodes fail; and each such failure is an entry of state.errors and of the
\* final report.  (No node ever waits, so a run that is not rejected goes
\* on to END: completion is the absence of a rejected run.)
C15_LinearAndCompletes ==
    /\ stagesRun = SubSeq(StageOrder, 1, Len(stagesRun))
    /\ pipePc # "aborted"
    /\ Len(stagesRun) = Len(StageOrder) => (pipePc = "done" /\ report # Null)
    /\ pipePc = "done" =>
           /\ dataFile = Null => HasError("loadData")
           /\ (inputData = Null \/ ValueOf(inputData).contentData = Null)
                  => HasError("processContent")
           /\ Len(processedContent) = 0 => HasError("generateEmbeddings")
           /\ Len(embeddings) = 0 => HasError("storeVectors")
           /\ ValueOf(report).errors = errors

\* C16 (as claimed): the marker written to vector-db-config.json has
\* ready = true exactly when at least one vector was stored in the run.
C16_ReadyIffPopulated ==
    markerFile # Null =>
        /\ ValueOf(markerFile).vectorCount = Len(storedVectors)
        /\ ValueOf(markerFile).ready <=> (ValueOf(markerFile).vectorCount > 0)

\* C19 (as claimed): after generateEmbeddings state.embeddings holds one
\* record per processed chunk, in order, with the chunk's id, content and
\* metadata, whatever the outcome of each embedding call, and
\* metrics.embedded is the number of processed chunks.
C19_NoChunkLost ==
    Ran("generateEmbeddings") =>
        /\ Len(embeddings) = Len(processedContent)
        /\ \A i \in 1..Len(embeddings) :
               i <= Len(processedContent) =>
                   /\ embeddings[i].id = processedContent[i].id
                   /\ embeddings[i].content = processedContent[i].content
                   /\ embeddings[i].metadata = processedContent[i].metadata
        /\ metrics.embedded = Len(processedContent)

Occurrences(list, id) == Cardinality({i \in 1..Len(list) : list[i].id = id})

\* C20 (as claimed): after storeVectors has stored (the collection took
\* all batches, failed before the first, or failed after some),
\* state.storedVectors holds each record of state.embeddings exactly once
\* and metrics.stored = storedVectors.length = embeddings.length.
C20_StoredExactlyOnce ==
    (Ran("storeVectors") /\ ~HasError("storeVectors")) =>
        /\ \A i \in 1..Len(embeddings) : Occurrences(storedVectors, embeddings[i].id) = 1
        /\ metrics.stored = Len(storedVectors)
        /\ Len(storedVectors) = Len(embeddings)

InputArticles == ValueOf(ValueOf(inputData).contentData)

Chunked(article) ==
    \E n \in 1..Len(processedContent) : processedContent[n].metadata.title = article.title

\* C29 (as claimed): an article that cannot be processed is recorded in
\* state.errors and costs only its own chunks: every other article of the
\* input, the ones after it included, is chunked.
C29_FailureIsolated ==
    (/\ Ran("processContent")
     /\ inputData # Null
     /\ ValueOf(inputData).contentData # Null)
        => /\ (\E i \in 1..Len(InputArticles) : InputArticles[i].content = Null)
                  => HasError("processContent")
           /\ \A i \in 1..Len(InputArticles) :
                  InputArticles[i].content # Null => Chunked(InputArticles[i])

(***************************************************************************)
(* server.js : initializeAgent and the handler of POST /chat               *)
(***************************************************************************)
\* initializeAgent() : ok tells whether constructing and initializing the
\* agent succeeds; a failure is caught and leaves agentReady false
initializeAgent(ok) ==
    /\ serverPc = "starting"
    /\ chatAgent' = Some("RAGChatAgent")
    /\ agentReady' = ok
    /\ serverPc' = "listening"
    /\ UNCHANGED <<request, httpResponse, chatCalls, requestCount>>
    /\ UNCHANGED <<chunkerVars, memoryVars, searchVars, cosineVars, normalizerVars,
                   pipelineVars, analyzerVars, keywordVars, sourcesVars, agentInitVars, inflightVars>>

\* a body is Null (req.body undefined) or Some([message, conversationId]);
\* a message is [type, text] with type "undefined", "number" or "string"
Message(type, text) == [type |-> type, text |-> text]

\* const { message, conversationId } = req.body || {}
MessageOf(body) == IF body = Null THEN Message("undefined", <<>>) ELSE ValueOf(body).message

ConversationIdOf(body) == IF body = Null THEN Null ELSE ValueOf(body).conversationId

\* InvalidMessage without the test for a whitespace-only message
InvalidMessageNoTrim(message) ==
    \/ message.type = "undefined"
    \/ message.type = "string" /\ Len(message.text) = 0
    \/ message.type # "string"

\* !message || typeof message !== 'string' || message.trim().length === 0
InvalidMessage(message) ==
    \/ message.type = "undefined"
    \/ message.type = "string" /\ Len(message.text) = 0
    \/ message.type # "string"
    \/ Len(Trim(message.text)) = 0

\* ChatStatus that validates the body before it looks at agentReady
ChatStatusValidatesFirst(ready, body) ==
    IF InvalidMessage(MessageOf(body)) THEN 400
    ELSE IF ~ready THEN 503
    ELSE 200

\* the status the handler answers with
ChatStatus(ready, body) ==
    IF ~ready THEN 503
    ELSE IF InvalidMessage(MessageOf(body)) THEN 400
    ELSE 200

\* the number of pieces of text.split(/\s+/), as a Text
TextOf(str) ==
    Text(IF str # <<>> /\ Head(str) \in Whitespace THEN 1 ELSE 0,
         Len(SelectSeq(SplitRuns(str, Whitespace), NonEmpty)),
         IF str # <<>> /\ str[Len(str)] \in Whitespace THEN 1 ELSE 0)

\* ids uuidv4() can give to a conversation
FreshIds == {"u1", "u2", "u3", "u4"}

\* RAGChatAgent.chat(query, conversationId) : id is the uuid used when no
\* conversationId is given, answer the text the response node produced,
\* found the sources the search node retrieved; the agent is connected to
\* its ChromaDB collection, so the search leaves the local index alone
ChatResult(query, givenId, id, answer, found) ==
    LET c == IF givenId = Null THEN id ELSE ValueOf(givenId)
        conversationTurn == [turn |-> TurnsSoFar(c) + 1,
                             query |-> TextOf(query), response |-> answer]
        history == MemoryAfter(HistoryOf(c), conversationTurn)
    IN  [history |-> (c :> history) @@ conversationHistory,
         data |-> [response |-> answer,
                   conversationId |-> c,
                   metadata |-> [searchResults |-> Len(found), turns |-> Len(history)],
                   sources |-> found]]

PostChat(body, id, answer, found) ==
    /\ request' = Some(body)
    /\ requestCount' = requestCount + 1
    /\ IF ChatStatus(agentReady, body) = 503
       THEN /\ httpResponse' = Some([status |-> 503,
                                     error |-> "Chat agent not ready",
                                     message |-> "Please wait for agent initialization to complete"])
            /\ UNCHANGED <<chatCalls, conversationHistory>>
       ELSE IF ChatStatus(agentReady, body) = 400
       THEN /\ httpResponse' = Some([status |-> 400,
                                     error |-> "Invalid request",
                                     message |-> "Message is required and must be a non-empty string"])
            /\ UNCHANGED <<chatCalls, conversationHistory>>
       ELSE LET query == Trim(MessageOf(body).text)
                result == ChatResult(query, ConversationIdOf(body), id, answer, found)
            IN  /\ chatCalls' = Append(chatCalls, [query |-> query,
                                                   conversationId |-> ConversationIdOf(body)])
                /\ conversationHistory' = result.history
                /\ httpResponse' = Some([status |-> 200, success |-> TRUE,
                                         data |-> result.data])
    /\ UNCHANGED <<chatAgent, agentReady, serverPc>>
    /\ UNCHANGED <<chunkerVars, searchVars, cosineVars, normalizerVars, pipelineVars, analyzerVars, keywordVars, sourcesVars, agentInitVars, inflightVars>>

(***************************************************************************)
(* Server specification: the server starts, and POST /chat requests arrive *)
(* before and after initializeAgent has run.                               *)
(***************************************************************************)
MessageTexts == {<<>>, <<" ">>, <<"h", "i">>, <<" ", "h", "i", " ">>}

Messages ==
    {Message("undefined", <<>>), Message("number", <<>>)} \cup
    {Message("string", t) : t \in MessageTexts}

Bodies ==
    {Null} \cup
    {Some([message |-> m, conversationId |-> c]) :
        m \in Messages, c \in {Null, Some("c1")}}

FoundSources == {<<>>, <<[title |-> "t1", similarity |-> 0]>>}

InitServer ==
    /\ ServerDown
    /\ serverPc = "starting"
    /\ ChunkerIdle /\ MemoryIdle /\ SearchIdle /\ CosineIdle /\ NormalizerIdle /\ PipelineIdle /\ AnalyzerIdle /\ KeywordIdle /\ SourcesIdle /\ AgentNotBuilt /\ NoChats

NextServer ==
    \/ \E ok \in BOOLEAN : initializeAgent(ok)
    \/ /\ requestCount < MaxRequests
       /\ \E body \in Bodies, id \in FreshIds \ DOMAIN conversationHistory,
             answer \in Responses, found \in FoundSources :
              PostChat(body, id, answer, found)

SpecServer == InitServer /\ [][NextServer]_vars

(***************************************************************************)
(* Server: claims                                                          *)
(***************************************************************************)
Handled == requestCount' = requestCount + 1

\* C17: a POST /chat that arrives while the agent is not ready is answered
\* 503 with an error and a message, whatever its body; the agent is not
\* called and the conversation memory stays as it was; an invalid body gets
\* 503 as well, not 400.
C17_Step ==
    (Handled /\ ~agentReady) =>
        /\ ValueOf(httpResponse').status = 503
        /\ DOMAIN ValueOf(httpResponse') = {"status", "error", "message"}
        /\ chatCalls' = chatCalls
        /\ conversationHistory' = conversationHistory

C18_Step ==
    (Handled /\ agentReady) =>
        LET message == MessageOf(ValueOf(request'))
            blank == \/ message.type # "string"
                     \/ \A i \in 1..Len(message.text) : message.text[i] \in Whitespace
        IN  /\ blank =>
                   /\ ValueOf(httpResponse').status = 400
                   /\ chatCalls' = chatCalls
                   /\ conversationHistory' = conversationHistory
            /\ ~blank =>
                   /\ Len(chatCalls') = Len(chatCalls) + 1
                   /\ chatCalls'[Len(chatCalls')].query = Trim(message.text)
                   /\ Head(chatCalls'[Len(chatCalls')].query) \notin Whitespace
                   /\ ValueOf(httpResponse').status = 200
                   /\ ValueOf(httpResponse').success = TRUE
                   /\ DOMAIN ValueOf(httpResponse').data =
                          {"response", "conversationId", "metadata", "sources"}

C18_Validation == [][C18_Step]_vars

\* a message with surrounding whitespace was passed on trimmed and answered
\* 200, after a whitespace-only message had been refused
C18_Witness ==
    /\ agentReady
    /\ requestCount = 2
    /\ Len(chatCalls) = 1
    /\ MessageOf(ValueOf(request)).text = <<" ", "h", "i", " ">>
    /\ chatCalls[1].query = <<"h", "i">>
    /\ ValueOf(httpResponse).status = 200

(***************************************************************************)
(* WebContentAnalyzer (exercise 1) and the file it hands to the pipeline   *)
(***************************************************************************)
\* const SAMPLE_URLS = [...]
SAMPLE_URLS == <<"u1", "u2", "u3">>

TechnicalWords ==
    {<<"a", "l", "g", "o", "r", "i", "t", "h", "m">>, <<"m", "o", "d", "e", "l">>,
     <<"d", "a", "t", "a">>, <<"a", "n", "a", "l", "y", "s", "i", "s">>,
     <<"m", "a", "c", "h", "i", "n", "e">>, <<"l", "e", "a", "r", "n", "i", "n", "g">>}

\* calculateQualityScore, doubled so that the half points stay integers
QualityScore2(page) ==
    LET lengthBonus == (IF page.wordCount > 500 THEN 4 ELSE 0)
                       + (IF page.wordCount > 1000 THEN 2 ELSE 0)
        titleBonus == IF Len(page.title) > 20 THEN 2 ELSE 0
        techWordCount ==
            Cardinality({w \in TechnicalWords : Includes(ToLower(page.content), w)})
        depth == IF techWordCount > 4 THEN 4 ELSE techWordCount
        score == 10 + lengthBonus + titleBonus + depth
    IN  IF score > 20 THEN 20 ELSE IF score < 2 THEN 2 ELSE score

\* the object analyzeTextContent returns for a fetched page
analyzeTextContent(page) ==
    [url |-> page.url,
     title |-> page.title,
     wordCount |-> page.wordCount,
     uniqueWords |-> 50,
     topKeywords |-> <<"sample", "keywords">>,
     qualityScore2 |-> QualityScore2(page)]

RECURSIVE AnalyzeAll(_, _)
\* for (const url of SAMPLE_URLS) { content = fetch; if (content) push(analyze) }
\* fetched[i] is Null when fetchWebContent returned null
AnalyzeAll(fetched, i) ==
    IF i > Len(fetched) THEN <<>>
    ELSE (IF fetched[i] = Null THEN <<>> ELSE <<analyzeTextContent(ValueOf(fetched[i]))>>)
         \o AnalyzeAll(fetched, i + 1)

\* r => r.qualityScore >= 6
HighQuality(r) == r.qualityScore2 >= 12

\* an exported record as processContent reads it back from the JSON file:
\* a field the record does not have reads as undefined
ArticleRead(r) ==
    [title |-> r.title,
     content |-> IF "content" \in DOMAIN r THEN Some(r.content) ELSE Null]

\* exportData.contentData as the pipeline reads it
ExportOf(analyses) ==
    LET kept == SelectSeq(analyses, HighQuality)
    IN  [contentData |-> Some([i \in 1..Len(kept) |-> ArticleRead(kept[i])])]

\* fetchAndAnalyze() with generateInsights() and exportForDataEngineering();
\* generateInsights returns before the export when there are no results
fetchAndAnalyze(fetched) ==
    /\ analyzerPc = "ready"
    /\ LET analyses == results \o AnalyzeAll(fetched, 1)
       IN  /\ results' = analyses
           /\ IF Len(analyses) = 0
              THEN UNCHANGED <<insights, dataFile>>
              ELSE /\ insights' = Some([totalArticles |-> Len(analyses)])
                   /\ dataFile' = Some(ExportOf(analyses))
    /\ analyzerPc' = "done"
    /\ UNCHANGED <<inputData, processedContent, embeddings, storedVectors, errors,
                   metrics, report, chromaCollection, collectionFile, markerFile,
                   reportFile, stagesRun, pipePc>>
    /\ UNCHANGED <<chunkerVars, memoryVars, searchVars, cosineVars, normalizerVars,
                   serverVars, keywordVars, sourcesVars, agentInitVars, inflightVars>>

\* EmbeddingsPipeline.run() : a new PipelineState enters the graph at START
run ==
    /\ pipePc = "idle"
    /\ analyzerPc = "done"
    /\ pipePc' = "loadData"
    /\ UNCHANGED <<dataFile, inputData, processedContent, embeddings, storedVectors,
                   errors, metrics, report, chromaCollection, collectionFile,
                   markerFile, reportFile, stagesRun>>
    /\ UNCHANGED <<chunkerVars, memoryVars, searchVars, cosineVars, normalizerVars,
                   serverVars, analyzerVars, keywordVars, sourcesVars, agentInitVars, inflightVars>>

(***************************************************************************)
(* Interchange specification: the analyzer runs over fetched pages, then   *)
(* the pipeline loads and processes what it exported.                      *)
(***************************************************************************)
LongTitle == [i \in 1..21 |-> "t"]

Page(url, title, text, wordCount) ==
    [url |-> url, title |-> title, content |-> text, wordCount |-> wordCount]

\* what fetchWebContent can return for a url: null, or a page
FetchOutcomes(url) ==
    {Null} \cup
    {Some(Page(url, title, text, wordCount)) :
        title \in {<<"t">>, LongTitle},
        text \in {<<"a", ".", " ", "b">>, <<"D", "a", "t", "a", ".">>},
        wordCount \in {100, 600}}

Fetches ==
    {f \in [1..Len(SAMPLE_URLS) -> UNION {FetchOutcomes(SAMPLE_URLS[i]) : i \in 1..Len(SAMPLE_URLS)}] :
        \A i \in 1..Len(SAMPLE_URLS) : f[i] \in FetchOutcomes(SAMPLE_URLS[i])}

InitInterchange ==
    /\ NewAnalyzer
    /\ analyzerPc = "ready"
    /\ PipelineIdle
    /\ ChunkerIdle /\ MemoryIdle /\ SearchIdle /\ CosineIdle /\ NormalizerIdle /\ ServerIdle /\ KeywordIdle /\ SourcesIdle /\ AgentNotBuilt /\ NoChats

NextInterchange ==
    \/ \E fetched \in Fetches : fetchAndAnalyze(fetched)
    \/ run
    \/ loadData
    \/ processContent

SpecInterchange == InitInterchange /\ [][NextInterchange]_vars

ExportedArticles == ValueOf(ValueOf(dataFile).contentData)

NResults == 3

\* 1 - r.similarity
PseudoDistance(s) == [oneMinus |-> s]

\* sign of x - y for two values 1 - s; two scores that differ only by the
\* 1e-12 of the denominator count as equal, the subtraction may round them
\* to the same number
DistanceCmp(x, y) ==
    ScoreCmp(Score(y.oneMinus.d, y.oneMinus.p, 0), Score(x.oneMinus.d, x.oneMinus.p, 0))

\* results.documents[0].map((content, i) => ({ content, metadata, similarity: results.distances[0][i] }))
ContextOf(top) ==
    [i \in 1..Len(top) |->
        [id |-> top[i].id,
         content |-> top[i].content,
         similarity |-> PseudoDistance(top[i].similarity)]]

searchVectorDatabase(query, bedrock) ==
    /\ chatPc = "search"
    /\ searchQuery' = query
    /\ searchK' = NResults
    /\ IF IndexThrows
       THEN /\ searchPc' = "threw"
            /\ ranked' = <<>>
            /\ queryEmbedding' = Null
            /\ embedCall' = "none"
            /\ retrievedContext' = <<>>
            /\ UNCHANGED <<localVectorIndex, embeddingCache>>
       ELSE LET index == ensureLocalVectorIndex
                embedding == embedQuery(query, bedrock)
                top == TopK(SortDescending(Scored(query, embedding, index)), NResults)
            IN  /\ localVectorIndex' = Some(index)
                /\ embeddingCache' = CacheAfterEmbed(query, bedrock)
                /\ queryEmbedding' = embedding
                /\ embedCall' = EmbedPath(query, bedrock)
                /\ ranked' = top
                /\ searchPc' = "done"
                /\ retrievedContext' = ContextOf(top)
    /\ chatPc' = "return"
    /\ UNCHANGED <<vectorFile, sources>>
    /\ UNCHANGED <<chunkerVars, memoryVars, cosineVars, normalizerVars, pipelineVars,
                   serverVars, analyzerVars, keywordVars, agentInitVars, inflightVars>>

\* sources: finalState.retrievedContext.map(item => ({ title, url, similarity: item.similarity }))
chatReturn ==
    /\ chatPc = "return"
    /\ sources' = Some([i \in 1..Len(retrievedContext) |->
                           [id |-> retrievedContext[i].id,
                            similarity |-> retrievedContext[i].similarity]])
    /\ chatPc' = "done"
    /\ UNCHANGED retrievedContext
    /\ UNCHANGED <<chunkerVars, memoryVars, searchVars, cosineVars, normalizerVars,
                   pipelineVars, serverVars, analyzerVars, keywordVars, agentInitVars, inflightVars>>

(***************************************************************************)
(* Sources specification: a vector file is drawn in Init, one chat request *)
(* searches it and returns.                                                *)
(***************************************************************************)
InitSources ==
    /\ vectorFile \in RankerFiles
    /\ localVectorIndex = Null
    /\ embeddingCache = NoCache
    /\ searchQuery = <<>>
    /\ searchK = 0
    /\ queryEmbedding = Null
    /\ ranked = <<>>
    /\ searchPc = "idle"
    /\ embedCall = "none"
    /\ retrievedContext = <<>>
    /\ sources = Null
    /\ chatPc = "search"
    /\ ChunkerIdle /\ MemoryIdle /\ CosineIdle /\ NormalizerIdle /\ PipelineIdle /\ ServerIdle /\ AnalyzerIdle /\ KeywordIdle /\ AgentNotBuilt /\ NoChats

NextSources ==
    \/ \E query \in SearchQueries, bedrock \in BedrockOutcomes :
           searchVectorDatabase(query, bedrock)
    \/ chatReturn

SpecSources == InitSources /\ [][NextSources]_vars

\* C26 (as claimed): in the result of chat on the local search path, the
\* sources are ordered so that each reported similarity is at least the
\* next one.
C26_SourcesDescending ==
    chatPc = "done" =>
        \A i, j \in 1..Len(ValueOf(sources)) :
            i < j => DistanceCmp(ValueOf(sources)[i].similarity,
                                 ValueOf(sources)[j].similarity) >= 0

(***************************************************************************)
(* Startup: server.js initializeAgent constructs the RAGChatAgent, whose   *)
(* constructor calls this.initializeAgent() (call 1), and then awaits      *)
(* chatAgent.initializeAgent() itself (call 2).  Each call runs from one   *)
(* await to the next in a step of its own.                                 *)
(***************************************************************************)
ConstructorCall == 1
ServerCall == 2

\* async initializeAgent() from its start to  await listCollections() :
\* if (this.initialized) return;  and then the body
EnterInitializeAgent(wasInitialized) == IF wasInitialized THEN "returned" ELSE "awaitChroma"

\* server.js initializeAgent() up to its await: new RAGChatAgent() sets
\* initialized = false and starts call 1, which runs to its first await; the
\* server then starts call 2 with nothing in between
serverInitializeAgentBegins ==
    /\ serverPc = "starting"
    /\ chatAgent' = Some("RAGChatAgent")
    /\ initialized' = FALSE
    /\ graph' = Null
    /\ LET calls == <<EnterInitializeAgent(FALSE), EnterInitializeAgent(FALSE)>>
       IN  /\ initCalls' = calls
           /\ bodyRuns' = bodyRuns + Cardinality({c \in 1..2 : calls[c] = "awaitChroma"})
    /\ serverPc' = "initializing"
    /\ UNCHANGED <<agentReady, request, httpResponse, chatCalls, requestCount,
                   verified, graphInvocations>>
    /\ UNCHANGED <<chunkerVars, memoryVars, searchVars, cosineVars, normalizerVars,
                   pipelineVars, analyzerVars, keywordVars, sourcesVars, inflightVars>>

\* await this.chromaClient.listCollections() settles for call c; either way
\* the call goes on to  await this.verifyVectorDatabase()
chromaSettles(c) ==
    /\ serverPc \in {"initializing", "listening"}
    /\ initCalls[c] = "awaitChroma"
    /\ initCalls' = [initCalls EXCEPT ![c] = "awaitVerify"]
    /\ UNCHANGED <<initialized, graph, bodyRuns, verified, graphInvocations>>
    /\ UNCHANGED <<chunkerVars, memoryVars, searchVars, cosineVars, normalizerVars,
                   pipelineVars, serverVars, analyzerVars, keywordVars, sourcesVars, inflightVars>>

\* verifyVectorDatabase() settles for call c.  ok: the graph is compiled and
\* initialized set.  Not ok: the call rejects; the rejection of call 1 is
\* handled by nobody, which ends the process or only warns (crash)
verifySettles(c, ok, crash) ==
    /\ serverPc \in {"initializing", "listening"}
    /\ initCalls[c] = "awaitVerify"
    /\ IF ok
       THEN /\ graph' = Some("compiled")
            /\ initialized' = TRUE
            /\ verified' = verified \cup {c}
            /\ initCalls' = [initCalls EXCEPT ![c] = "returned"]
            /\ UNCHANGED serverPc
       ELSE /\ initCalls' = [initCalls EXCEPT ![c] = "threw"]
            /\ serverPc' = IF c = ConstructorCall /\ crash THEN "crashed" ELSE serverPc
            /\ UNCHANGED <<graph, initialized, verified>>
    /\ UNCHANGED <<bodyRuns, graphInvocations>>
    /\ UNCHANGED <<chatAgent, agentReady, request, httpResponse, chatCalls, requestCount>>
    /\ UNCHANGED <<chunkerVars, memoryVars, searchVars, cosineVars, normalizerVars,
                   pipelineVars, analyzerVars, keywordVars, sourcesVars, inflightVars>>

\* ReadyAfter that sets agentReady in the catch as well
ReadyAfterAnyOutcome(call) == TRUE

\* agentReady after the awaited call has settled: true behind the await,
\* unchanged in the catch
ReadyAfter(call) == IF call = "returned" THEN TRUE ELSE agentReady

\* server.js initializeAgent() resumes once call 2 has settled, and
\* startServer goes on to app.listen
serverInitializeAgentResumes ==
    /\ serverPc = "initializing"
    /\ initCalls[ServerCall] \in {"returned", "threw"}
    /\ agentReady' = ReadyAfter(initCalls[ServerCall])
    /\ serverPc' = "listening"
    /\ UNCHANGED <<chatAgent, request, httpResponse, chatCalls, requestCount>>
    /\ UNCHANGED agentInitVars
    /\ UNCHANGED <<chunkerVars, memoryVars, searchVars, cosineVars, normalizerVars,
                   pipelineVars, analyzerVars, keywordVars, sourcesVars, inflightVars>>

\* POST /chat with a valid message while the server starts or listens: 503
\* unless agentReady, else chatAgent.chat(...) reaches this.graph.invoke
chatDuringStartup(query) ==
    /\ serverPc \in {"starting", "initializing", "listening"}
    /\ requestCount < MaxRequests
    /\ requestCount' = requestCount + 1
    /\ request' = Some([message |-> Message("string", query), conversationId |-> Null])
    /\ IF ~agentReady
       THEN /\ httpResponse' = Some([status |-> 503,
                                     error |-> "Chat agent not ready",
                                     message |-> "Please wait for agent initialization to complete"])
            /\ UNCHANGED <<chatCalls, graphInvocations>>
       ELSE /\ chatCalls' = Append(chatCalls, [query |-> query, conversationId |-> Null])
            /\ graphInvocations' = Append(graphInvocations, graph)
            /\ httpResponse' = Some([status |-> IF graph = Null THEN 500 ELSE 200])
    /\ UNCHANGED <<chatAgent, agentReady, serverPc>>
    /\ UNCHANGED <<initialized, graph, initCalls, bodyRuns, verified>>
    /\ UNCHANGED <<chunkerVars, memoryVars, searchVars, cosineVars, normalizerVars,
                   pipelineVars, analyzerVars, keywordVars, sourcesVars, inflightVars>>

InitStartup ==
    /\ ServerDown
    /\ serverPc = "starting"
    /\ AgentNotBuilt /\ NoChats
    /\ ChunkerIdle /\ MemoryIdle /\ SearchIdle /\ CosineIdle /\ NormalizerIdle /\ PipelineIdle /\ AnalyzerIdle /\ KeywordIdle /\ SourcesIdle /\ NoChats

NextStartup ==
    \/ serverInitializeAgentBegins
    \/ \E c \in {ConstructorCall, ServerCall} : chromaSettles(c)
    \/ \E c \in {ConstructorCall, ServerCall}, ok \in BOOLEAN, crash \in BOOLEAN :
           verifySettles(c, ok, crash)
    \/ serverInitializeAgentResumes
    \/ \E query \in {<<"h", "i">>, <<"M", "L">>} : chatDuringStartup(query)

SpecStartup == InitStartup /\ [][NextStartup]_vars

\* C27 (as claimed): the initialization body of a RAGChatAgent runs at most
\* once, although initializeAgent is started by the constructor and called
\* again by the server's startup.
C27_InitializedOnce == bodyRuns <= 1

\* C30: whenever agentReady is true, chatAgent is set, the
\* verifyVectorDatabase of the awaited initialization has succeeded and the
\* graph is compiled; no admitted /chat request finds the graph null; and
\* agentReady, once true, stays true.
C30_Step ==
    /\ agentReady' =>
           /\ chatAgent' # Null
           /\ ServerCall \in verified'
           /\ graph' # Null
    /\ \A i \in 1..Len(graphInvocations') : graphInvocations'[i] # Null
    /\ agentReady => agentReady'

C30_ReadyMeansUsable == [][C30_Step]_vars

\* a request was admitted and served while the constructor's own call had
\* failed
C30_Witness ==
    /\ agentReady
    /\ Len(graphInvocations) >= 1
    /\ initCalls[ConstructorCall] = "threw"

(***************************************************************************)
(* Chat calls in flight: chat() makes an AgentState and runs the graph     *)
(* processQuery -> searchVectorDatabase -> generateResponse ->             *)
(* updateMemory; every node is awaited, so other calls run between two     *)
(* nodes of a call.  Of the nodes only updateMemory writes the             *)
(* conversation memory; it has no await of its own.                        *)
(***************************************************************************)
GraphNodes == <<"processQuery", "searchVectorDatabase", "generateResponse", "updateMemory">>

\* workflow.addEdge(...): the node after a node, "returned" after the last
NodeAfter(node) ==
    IF node = "processQuery" THEN "searchVectorDatabase"
    ELSE IF node = "searchVectorDatabase" THEN "generateResponse"
    ELSE IF node = "generateResponse" THEN "updateMemory"
    ELSE "returned"

\* the ids uuidv4() gives to the calls made without a conversationId
Uuids == <<"u1", "u2", "u3", "u4">>

\* state.conversationId = conversationId || uuidv4()
ConversationOf(r, given) == IF given = Null THEN Uuids[r] ELSE ValueOf(given)

\* chat(query, conversationId) up to graph.invoke
chat(r, query, given) ==
    /\ chats[r].pc = "idle"
    /\ chats' = [chats EXCEPT ![r] = [pc |-> GraphNodes[1],
                                      conversationId |-> ConversationOf(r, given),
                                      query |-> query]]
    /\ UNCHANGED appendLog
    /\ UNCHANGED <<chunkerVars, memoryVars, searchVars, cosineVars, normalizerVars,
                   pipelineVars, serverVars, analyzerVars, keywordVars, sourcesVars,
                   agentInitVars>>

\* processQuery, searchVectorDatabase or generateResponse of call r returns
nodeReturns(r) ==
    /\ chats[r].pc \in {"processQuery", "searchVectorDatabase", "generateResponse"}
    /\ chats' = [chats EXCEPT ![r].pc = NodeAfter(@)]
    /\ UNCHANGED appendLog
    /\ UNCHANGED <<chunkerVars, memoryVars, searchVars, cosineVars, normalizerVars,
                   pipelineVars, serverVars, analyzerVars, keywordVars, sourcesVars,
                   agentInitVars>>

\* ListForPush that starts a new list whether or not the map has the id
ListForPushAlwaysNew(c) == <<>>

\* if (!this.conversationHistory.has(id)) this.conversationHistory.set(id, []);
\* const history = this.conversationHistory.get(id)
ListForPush(c) == HistoryOf(c)

\* the updateMemory node of call r, from has() to the pruning, and the
\* return of chat
updateMemoryNode(r, response) ==
    /\ chats[r].pc = "updateMemory"
    /\ LET c == chats[r].conversationId
           conversationTurn == [turn |-> TurnsSoFar(c) + 1,
                                query |-> chats[r].query,
                                response |-> response]
       IN  /\ conversationHistory' =
                  (c :> MemoryAfter(ListForPush(c), conversationTurn)) @@ conversationHistory
           /\ appendLog' = Append(appendLog, [chat |-> r, conversationId |-> c,
                                              turn |-> conversationTurn.turn])
    /\ chats' = [chats EXCEPT ![r].pc = NodeAfter(@)]
    /\ UNCHANGED <<chunkerVars, searchVars, cosineVars, normalizerVars,
                   pipelineVars, serverVars, analyzerVars, keywordVars, sourcesVars,
                   agentInitVars>>

(***************************************************************************)
(* Chat specification: conversation "c1" is new or holds eleven earlier    *)
(* turns (numbered -10..0), and MaxChats calls run interleaved.            *)
(***************************************************************************)
EarlierTurns == [i \in 1..11 |-> [turn |-> i - 11, query |-> Text(0, 1, 0), response |-> Text(0, 40, 0)]]

\* the query of call r: short, long or oversized
ChatQuery(r) ==
    IF r % 3 = 1 THEN Text(0, 1, 0) ELSE IF r % 3 = 2 THEN Text(0, 1600, 0) ELSE Text(1, 4500, 1)

InitChat ==
    /\ conversationHistory \in {NoHistory, "c1" :> EarlierTurns}
    /\ NoChats
    /\ ChunkerIdle /\ SearchIdle /\ CosineIdle /\ NormalizerIdle /\ PipelineIdle /\ ServerIdle /\ AnalyzerIdle /\ KeywordIdle /\ SourcesIdle /\ AgentNotBuilt

NextChat ==
    \/ \E r \in 1..MaxChats, given \in {Null, Some("c1")} : chat(r, ChatQuery(r), given)
    \/ \E r \in 1..MaxChats : nodeReturns(r)
    \/ \E r \in 1..MaxChats, response \in Responses : updateMemoryNode(r, response)

SpecChat == InitChat /\ [][NextChat]_vars

AppendsOf(r) == {i \in 1..Len(appendLog) : appendLog[i].chat = r}

\* C28: under every interleaving of chat calls at their await points,
\* calls sharing a conversationId included: a call has appended exactly one
\* turn, to its own conversation, once it has completed and none before;
\* an update puts its turn at the end of the list as the other calls left
\* it, leaves every other conversation alone, and removes turns only from
\* the old end of the list and only when the list exceeds 12 turns or the
\* token budget; no list ever holds more than 12 turns.
C28_Step ==
    /\ \A r \in 1..MaxChats :
           /\ chats'[r].pc = "returned" =>
                  /\ Cardinality(AppendsOf(r)') = 1
                  /\ \A i \in AppendsOf(r)' :
                         appendLog'[i].conversationId = chats'[r].conversationId
           /\ chats'[r].pc # "returned" => AppendsOf(r)' = {}
    /\ \A c \in DOMAIN conversationHistory' : Len(conversationHistory'[c]) <= MaxTurnsKept
    /\ appendLog' = appendLog => conversationHistory' = conversationHistory
    /\ appendLog' # appendLog =>
           LET entry == appendLog'[Len(appendLog')]
               c == entry.conversationId
               old == HistoryOf(c)
               new == conversationHistory'[c]
               kept == SubSeq(new, 1, Len(new) - 1)
           IN  /\ Len(appendLog') = Len(appendLog) + 1
               /\ Len(new) >= 1
               /\ new[Len(new)].turn = entry.turn
               /\ new[Len(new)].query = chats[entry.chat].query
               /\ \A i \in 1..Len(old) : old[i].turn # entry.turn
               /\ kept = SubSeq(old, Len(old) - Len(kept) + 1, Len(old))
               /\ Len(kept) < Len(old) =>
                      \/ Len(old) + 1 > MaxTurnsKept
                      \/ ApproxTokens(old) + TurnTokens(new[Len(new)]) > TokenBudget
               /\ \A other \in DOMAIN conversationHistory' :
                      other # c => /\ other \in DOMAIN conversationHistory
                                   /\ conversationHistory'[other] = conversationHistory[other]

C28_NoLockingNeeded == [][C28_Step]_vars

\* two calls shared conversation "c1", the one that started its update
\* second had been started first, and the list was cut to 12 turns
C28_Witness ==
    /\ Len(appendLog) >= 2
    /\ appendLog[1].conversationId = "c1"
    /\ appendLog[2].conversationId = "c1"
    /\ appendLog[1].chat > appendLog[2].chat
    /\ Len(conversationHistory["c1"]) = MaxTurnsKept
    /\ conversationHistory["c1"][MaxTurnsKept].turn = 2

====
